---- MODULE Spec2Model ----
(***************************************************************************)
(* Model of the card renderer of arena-qr (src/src/imageProcessor.js):     *)
(* generateContentWithQR and its stages drawBaseLayout, renderImageContent,*)
(* renderTextContent, addMetadata, and the pure helper wrapText.           *)
(* The page that calls it (src/src/main.js) and the block lookup           *)
(* (src/src/arenaProcessor.js, getArenaBlockData and                       *)
(* createArenaqrImageDataURL) are modelled in the section on the page.     *)
(*                                                                         *)
(* Representation.                                                         *)
(*  - A JavaScript string is a sequence of tokens; the token " " is the    *)
(*    U+0020 character, every other token is a run of non-space            *)
(*    characters.  split(" "), concatenation and truthiness are modelled   *)
(*    on that sequence.                                                    *)
(*  - An optional field is <<>> when absent and <<s>> when it holds s.     *)
(*  - Lengths of the layout are integers in units of 1/20 pixel (Px), so   *)
(*    that fontSize * 1.2, fontSize * 1.4 and the glyph advances are exact.*)
(*  - The image fit (renderImageContent, lines 221-227) is computed in     *)
(*    IEEE-754 binary64, round to nearest even, on bit sequences.          *)
(***************************************************************************)
EXTENDS Integers, Sequences, FiniteSets, TLC

VARIABLES
    content,      \* content[r]: the descriptor passed to render r
    qrData,       \* qrData[r]: the payload passed to render r
    pc,           \* pc[r]: where render r is suspended
    ctx,          \* ctx[r]: drawing state of r's canvas context
    trace,        \* trace[r]: loads, paint operations, throws and the
                  \* serialization of render r, in the order they happened
    result,       \* result[r]: what the call returned or threw
    prev,         \* the last finished call (inputs, loader results, outcome)
    call,         \* arguments of a direct call of a pure function
    ret,          \* its return value
    dom,          \* the page of main.js: displays, banner text, image, input
    run           \* run[r]: the r-th call of generateArenaqrImage

vars == <<content, qrData, pc, ctx, trace, result, prev, call, ret, dom, run>>

renderVars == <<content, qrData, pc, ctx, trace, result, prev>>

(***************************************************************************)
(* Bounds of the model.                                                    *)
(***************************************************************************)
MaxLen == 6        \* longest string given to wrapText directly (tokens)
MaxWidth == 8      \* largest maxWidth given to wrapText directly (pixels)
MaxDim == 50       \* largest bitmap width and height given to the fit
MaxRenders == 2    \* calls of generateContentWithQR in flight at once
MaxRuns == 2       \* calls of generateArenaqrImage (clicks) in a behaviour

(***************************************************************************)
(* Numbers and strings.                                                    *)
(***************************************************************************)
Px(n) == n * 20

SPACE == " "

None == <<>>

Some(s) == <<s>>

\* JavaScript truthiness of an optional string: present and not "".
Truthy(opt) == opt # None /\ opt[1] # <<>>

RECURSIVE SumSeq(_)
SumSeq(s) == IF s = <<>> THEN 0 ELSE s[1] + SumSeq(Tail(s))

RECURSIVE Flatten(_)
Flatten(ss) == IF ss = <<>> THEN <<>> ELSE ss[1] \o Flatten(Tail(ss))

\* String.prototype.split(" "): the pieces between U+0020 characters;
\* "" gives [""], consecutive spaces give empty pieces.
RECURSIVE SplitFrom(_, _, _)
SplitFrom(text, piece, i) ==
    IF i > Len(text) THEN <<piece>>
    ELSE IF text[i] = SPACE THEN <<piece>> \o SplitFrom(text, <<>>, i + 1)
    ELSE SplitFrom(text, Append(piece, text[i]), i + 1)

split(text) == SplitFrom(text, <<>>, 1)

\* Advance of one token in quarters of the font size (an em): a space is
\* 0.25 em, a narrow letter 0.5 em, a wide letter 1 em; longer tokens are
\* runs of letters.
CharUnits(c) ==
    CASE c = SPACE -> 1
      [] c = "a" -> 2
      [] c = "W" -> 4
      [] c = "Added:" -> 12
      [] c = "By:" -> 6
      [] c = "not-a-date" -> 18
      [] c = "1/15/2024" -> 18
      [] c = "2024-01-15T10:00:00.000Z" -> 48
      [] c = "Title" -> 10
      [] c = "LongTitleWord" -> 40
      [] c = "WiderThanHalfALine" -> 68
      [] OTHER -> 8

\* CanvasRenderingContext2D.measureText(s).width under the context's font.
measureText(c, s) ==
    (Px(c.font.size) * SumSeq([i \in 1..Len(s) |-> CharUnits(s[i])])) \div 4

(***************************************************************************)
(* wrapText (imageProcessor.js 498-520).                                   *)
(***************************************************************************)
FitsMeasureWordOnly(c, currentLine, word, maxWidth) ==
    measureText(c, word) < maxWidth

FitsAtMost(c, currentLine, word, maxWidth) ==
    measureText(c, currentLine \o <<SPACE>> \o word) <= maxWidth

\* lines 505-507: the candidate line is measured whole and must stay
\* strictly below maxWidth.
Fits(c, currentLine, word, maxWidth) ==
    measureText(c, currentLine \o <<SPACE>> \o word) < maxWidth

FlushNever(lines, currentLine) == lines

\* lines 515-517: the line in progress is pushed unless it is "".
Flush(lines, currentLine) ==
    IF currentLine # <<>> THEN Append(lines, currentLine) ELSE lines

RECURSIVE WrapLoop(_, _, _, _, _, _)
WrapLoop(c, words, i, lines, currentLine, maxWidth) ==
    IF i > Len(words) THEN Flush(lines, currentLine)
    ELSE IF Fits(c, currentLine, words[i], maxWidth)
         THEN WrapLoop(c, words, i + 1, lines,
                       currentLine \o <<SPACE>> \o words[i], maxWidth)
         ELSE WrapLoop(c, words, i + 1, Append(lines, currentLine),
                       words[i], maxWidth)

\* words[0] || "" is words[0] either way; the loop starts at the second word.
wrapText(text, c, maxWidth) ==
    LET words == split(text)
    IN  WrapLoop(c, words, 2, <<>>, words[1], maxWidth)

(***************************************************************************)
(* The render settings (imageProcessor.js 67-95), in pixels.               *)
(***************************************************************************)
settings ==
    [canvasWidth |-> 800,
     canvasHeight |-> 500,
     contentWidth |-> 600,
     metadataWidth |-> 200,
     frameWidth |-> 1,
     frameColor |-> "#e7e7e5",
     borderColor |-> "#000",
     containerBorderColor |-> "#e7e7e5",
     containerPadding |-> 2,
     textContainerMargin |-> 5,
     padding |-> 16,
     titleFontSize |-> 18,
     descriptionFontSize |-> 14,
     dateAddedFontSize |-> 12,
     authorFontSize |-> 12,
     titleFontFamily |-> "Arial, sans-serif",
     metadataFontFamily |-> "Arial, sans-serif",
     titleColor |-> "#333",
     metadataColor |-> "#666",
     qrCodeMargin |-> 1,
     qrCodeColor |-> [dark |-> "#000000", light |-> "#ffffff"],
     qrCodeSize |-> 150,
     spaceBetween |-> 15,
     backgroundColor |-> "#fff"]

(***************************************************************************)
(* IEEE-754 binary64 on positive numbers.  A double is [m, e]: m is its    *)
(* 53-bit significand, most significant bit first (m[1] = 1), and its      *)
(* value is m * 2^e.  A dyadic number [b, e] is any bit sequence b times   *)
(* 2^e, used for exact arithmetic.                                         *)
(***************************************************************************)
\* Length of the binary numeral of n (0 for 0), n < 2^30.
BitLen(n) == CHOOSE k \in 0..30 : 2^k > n /\ (k = 0 \/ 2^(k - 1) <= n)

BitsOf(n) == [i \in 1..BitLen(n) |-> (n \div 2^(BitLen(n) - i)) % 2]

Zeros(n) == [i \in 1..n |-> 0]

Strip(b) ==
    IF \A i \in 1..Len(b) : b[i] = 0 THEN <<>>
    ELSE LET k == CHOOSE i \in 1..Len(b) :
                      b[i] = 1 /\ \A j \in 1..(i - 1) : b[j] = 0
         IN  SubSeq(b, k, Len(b))

\* A bit sequence as limbs of ten bits, most significant first, and back.
Base == 2^10

ToLimbs(b) ==
    LET n == (Len(b) + 9) \div 10
        p == Zeros(10 * n - Len(b)) \o b
    IN  [j \in 1..n |->
            LET k == 10 * (j - 1)
            IN  p[k + 1] * 512 + p[k + 2] * 256 + p[k + 3] * 128
                + p[k + 4] * 64 + p[k + 5] * 32 + p[k + 6] * 16
                + p[k + 7] * 8 + p[k + 8] * 4 + p[k + 9] * 2 + p[k + 10]]

FromLimbs(l) ==
    [i \in 1..(10 * Len(l)) |->
        (l[((i - 1) \div 10) + 1] \div 2^(9 - ((i - 1) % 10))) % 2]

LimbsOf(n) ==
    IF n = 0 THEN <<>>
    ELSE IF n < Base THEN <<n>>
    ELSE IF n < Base * Base THEN <<n \div Base, n % Base>>
    ELSE <<n \div (Base * Base), (n \div Base) % Base, n % Base>>

\* l * w for an integer 0 <= w < 2^20, least significant limb first with
\* a carry.
RECURSIVE MulLimbs(_, _, _, _)
MulLimbs(l, w, j, carry) ==
    IF j = 0 THEN LimbsOf(carry)
    ELSE LET d == w * l[j] + carry
         IN  Append(MulLimbs(l, w, j - 1, d \div Base), d % Base)

MulSmall(b, w) ==
    LET l == ToLimbs(b) IN Strip(FromLimbs(MulLimbs(l, w, Len(l), 0)))

\* x + y for limb sequences of the same length.
RECURSIVE AddLimbs(_, _, _, _)
AddLimbs(x, y, j, carry) ==
    IF j = 0 THEN LimbsOf(carry)
    ELSE LET d == x[j] + y[j] + carry
         IN  Append(AddLimbs(x, y, j - 1, d \div Base), d % Base)

\* x + y for bit sequences of the same length.
AddBits(x, y) ==
    LET lx == ToLimbs(x)
        ly == ToLimbs(y)
    IN  FromLimbs(AddLimbs(lx, ly, Len(lx), 0))

\* Lexicographic order of bit sequences of the same length.
BitsLess(x, y) ==
    \E i \in 1..Len(x) : x[i] < y[i] /\ \A j \in 1..(i - 1) : x[j] = y[j]

\* The first n limbs after the binary point of r / b (r < b < 2^21), and
\* the remainder left.
RECURSIVE FracLimbs(_, _, _)
FracLimbs(r, b, n) ==
    IF n = 0 THEN [limbs |-> <<>>, rem |-> r]
    ELSE LET d == r * Base
             rest == FracLimbs(d % b, b, n - 1)
         IN  [limbs |-> <<d \div b>> \o rest.limbs, rem |-> rest.rem]

\* m + 1 for a 53-bit significand (54 bits when it carries out).
Inc(m) ==
    IF \A i \in 1..Len(m) : m[i] = 1 THEN <<1>> \o Zeros(Len(m))
    ELSE LET k == CHOOSE i \in 1..Len(m) :
                      m[i] = 0 /\ \A j \in (i + 1)..Len(m) : m[j] = 1
         IN  [i \in 1..Len(m) |-> IF i < k THEN m[i] ELSE IF i = k THEN 1 ELSE 0]

FZero == [neg |-> FALSE, m |-> Zeros(53), e |-> 0]

IsZero(x) == x.m[1] = 0

RoundTowardZero(neg, b, e, sticky) ==
    LET s == Strip(b)
        L == Len(s)
    IN  IF L = 0 THEN FZero
        ELSE IF L <= 53
        THEN [neg |-> neg, m |-> s \o Zeros(53 - L), e |-> e - (53 - L)]
        ELSE [neg |-> neg, m |-> SubSeq(s, 1, 53), e |-> e + (L - 53)]

\* Round to nearest, ties to even: the double nearest to b * 2^e (plus a
\* non-zero amount below the last bit of b when sticky).
RoundNearestEven(neg, b, e, sticky) ==
    LET s == Strip(b)
        L == Len(s)
    IN  IF L = 0 THEN FZero
        ELSE IF L <= 53
        THEN [neg |-> neg, m |-> s \o Zeros(53 - L), e |-> e - (53 - L)]
        ELSE LET m == SubSeq(s, 1, 53)
                 guard == s[54]
                 below == sticky \/ \E i \in 55..L : s[i] = 1
                 up == guard = 1 /\ (below \/ m[53] = 1)
                 inc == Inc(m)
             IN  IF ~up THEN [neg |-> neg, m |-> m, e |-> e + (L - 53)]
                 ELSE IF Len(inc) = 53
                 THEN [neg |-> neg, m |-> inc, e |-> e + (L - 53)]
                 ELSE [neg |-> neg, m |-> SubSeq(inc, 1, 53),
                       e |-> e + (L - 53) + 1]

\* A non-negative integer below 2^30 as a double (exact).
FromInt(n) == RoundNearestEven(FALSE, BitsOf(n), 0, FALSE)

\* a / b of two positive integers held as doubles.
FDiv(a, b) ==
    LET n == ((54 + BitLen(b)) \div 10) + 1
        f == FracLimbs(a % b, b, n)
    IN  RoundNearestEven(FALSE, BitsOf(a \div b) \o FromLimbs(f.limbs),
                         -(10 * n), f.rem # 0)

\* w * x for a positive integer w held as a double.
FMulInt(w, x) == RoundNearestEven(x.neg, MulSmall(x.m, w), x.e, FALSE)

\* x < y for positive doubles.
FLess(x, y) == x.e < y.e \/ (x.e = y.e /\ BitsLess(x.m, y.m))

\* Math.min of two positive doubles.
FMin(x, y) == IF FLess(y, x) THEN y ELSE x

\* Exact arithmetic on non-negative dyadic numbers.
DyInt(n) == [b |-> BitsOf(n), e |-> 0]

DyMulInt(w, x) == [b |-> MulSmall(x.b, w), e |-> x.e]

DyScale(x, k) == [b |-> x.b, e |-> x.e + k]

DyAligned(x, y) ==
    LET e0 == IF x.e < y.e THEN x.e ELSE y.e
        xb == Strip(x.b) \o Zeros(x.e - e0)
        yb == Strip(y.b) \o Zeros(y.e - e0)
        L == IF Len(xb) > Len(yb) THEN Len(xb) ELSE Len(yb)
    IN  [x |-> Zeros(L - Len(xb)) \o xb, y |-> Zeros(L - Len(yb)) \o yb, e |-> e0]

DyLess(x, y) == LET a == DyAligned(x, y) IN BitsLess(a.x, a.y)

DyEq(x, y) == LET a == DyAligned(x, y) IN a.x = a.y

DyLeq(x, y) == ~DyLess(y, x)

DyAdd(x, y) ==
    LET a == DyAligned(x, y)
    IN  [b |-> AddBits(a.x, a.y), e |-> a.e]

\* x - y for limb sequences of the same length, x >= y.
RECURSIVE SubLimbs(_, _, _, _)
SubLimbs(x, y, j, borrow) ==
    IF j = 0 THEN <<>>
    ELSE LET d == x[j] - y[j] - borrow
         IN  IF d < 0
             THEN Append(SubLimbs(x, y, j - 1, 1), d + Base)
             ELSE Append(SubLimbs(x, y, j - 1, 0), d)

\* x - y for x >= y.
DySub(x, y) ==
    LET a == DyAligned(x, y)
        lx == ToLimbs(a.x)
        ly == ToLimbs(a.y)
    IN  [b |-> FromLimbs(SubLimbs(lx, ly, Len(lx), 0)), e |-> a.e]

\* The magnitude of a double as a dyadic number.
Dy(x) == [b |-> x.m, e |-> x.e]

\* x + y, x - y and x / 2 of doubles.
FAdd(x, y) ==
    IF x.neg = y.neg
    THEN LET t == DyAdd(Dy(x), Dy(y)) IN RoundNearestEven(x.neg, t.b, t.e, FALSE)
    ELSE IF DyEq(Dy(x), Dy(y)) THEN FZero
    ELSE IF DyLess(Dy(y), Dy(x))
    THEN LET t == DySub(Dy(x), Dy(y)) IN RoundNearestEven(x.neg, t.b, t.e, FALSE)
    ELSE LET t == DySub(Dy(y), Dy(x)) IN RoundNearestEven(y.neg, t.b, t.e, FALSE)

FSub(x, y) == FAdd(x, [y EXCEPT !.neg = ~y.neg])

FHalf(x) == IF IsZero(x) THEN x ELSE [x EXCEPT !.e = x.e - 1]

(***************************************************************************)
(* The image fit of renderImageContent (imageProcessor.js 191-227).        *)
(***************************************************************************)
contentAreaWidth == settings.contentWidth - settings.padding * 2

contentAreaHeight ==
    settings.canvasHeight - settings.padding * 2 - settings.frameWidth * 4

containerX == settings.frameWidth * 2 + settings.padding

containerY == settings.frameWidth * 2 + settings.padding

containerWidth == contentAreaWidth

containerHeight == contentAreaHeight

innerWidth == containerWidth - settings.containerPadding * 2

innerHeight == containerHeight - settings.containerPadding * 2

ScaledTruncated(scale, n) ==
    RoundTowardZero(FALSE, MulSmall(scale.m, n), scale.e, FALSE)

\* lines 226-227: img.width * scale, img.height * scale
Scaled(scale, n) == FMulInt(n, scale)

ScaleByWidthOnly(width, height) == FDiv(innerWidth, width)

\* lines 221-224: Math.min(innerWidth / img.width, innerHeight / img.height)
Scale(width, height) ==
    FMin(FDiv(innerWidth, width), FDiv(innerHeight, height))

\* lines 230-237: the top left corner that centres the scaled bitmap.
Centered(origin, inner, scaled) ==
    FAdd(FromInt(origin + settings.containerPadding),
         FHalf(FSub(FromInt(inner), scaled)))

FitImage(width, height) ==
    LET scale == Scale(width, height)
        scaledWidth == Scaled(scale, width)
        scaledHeight == Scaled(scale, height)
    IN  [scale |-> scale,
         scaledWidth |-> scaledWidth,
         scaledHeight |-> scaledHeight,
         imageX |-> Centered(containerX, innerWidth, scaledWidth),
         imageY |-> Centered(containerY, innerHeight, scaledHeight)]

(***************************************************************************)
(* The canvas.  An event of a render's trace is a record                   *)
(*   ev    "paint", "loadStart", "loadEnd", "throw" or "serialize"         *)
(*   part  the piece of code that issued it                                *)
(*   op    the canvas method, or the asset loaded                          *)
(*   style the context state (fillStyle, font, textBaseline) at that time  *)
(*   args  integer arguments, in 1/20 pixel                                *)
(*   text  a string argument (text drawn, URL, payload, error message)     *)
(*   f     arguments that are doubles; for a load, the bitmap's size       *)
(*   ok    whether a load succeeded                                        *)
(***************************************************************************)
\* A fresh 2d context: the defaults of the canvas API.
DefaultCtx ==
    [fillStyle |-> "#000000",
     font |-> [bold |-> FALSE, size |-> 10, family |-> "sans-serif"],
     textBaseline |-> "alphabetic"]

Font(bold, size, family) == [bold |-> bold, size |-> size, family |-> family]

Ev(ev, part, op, c, args, text, f, ok) ==
    [ev |-> ev, part |-> part, op |-> op, style |-> c, args |-> args,
     text |-> text, f |-> f, ok |-> ok]

FillRect(part, c, x, y, w, h) ==
    Ev("paint", part, "fillRect", c, <<Px(x), Px(y), Px(w), Px(h)>>, <<>>, <<>>, TRUE)

\* x and y are already in 1/20 pixel.
FillText(part, c, line, x, y) ==
    Ev("paint", part, "fillText", c, <<x, y>>, line, <<>>, TRUE)

LoadStart(part, asset, c, url) ==
    Ev("loadStart", part, asset, c, <<>>, url, <<>>, TRUE)

LoadEnd(part, asset, c, size, ok) ==
    Ev("loadEnd", part, asset, c, size, <<>>, <<>>, ok)

\* A load that fails with an error of the loader; text is its message.
LoadError(part, asset, c, message) ==
    Ev("loadEnd", part, asset, c, <<>>, message, <<>>, FALSE)

\* An error message is the sequence of the pieces concatenated into it; the
\* empty string is <<>>.
Throw(part, c, message) ==
    Ev("throw", part, "Error", c, <<>>, message, <<>>, FALSE)

IsPaint(e) == e.ev = "paint"

IsLoadEnd(e) == e.ev = "loadEnd"

\* The stage a piece of code belongs to.
StageOf(part) ==
    CASE part \in {"canvas", "base"} -> "base"
      [] part \in {"image", "text", "dispatch"} -> "content"
      [] part \in {"logo", "title", "description", "date", "author"} -> "metadata"
      [] part \in {"qrcode", "qrimage"} -> "code"
      [] part = "serialize" -> "serialize"

(***************************************************************************)
(* drawBaseLayout (imageProcessor.js 142-174).  A drawing step takes and   *)
(* returns d = [c, ops]: the context state and the paints so far.          *)
(***************************************************************************)
drawBaseLayout(c0) ==
    LET w == settings.canvasWidth
        h == settings.canvasHeight
        fw == settings.frameWidth
        c1 == [c0 EXCEPT !.fillStyle = settings.borderColor]
        c2 == [c1 EXCEPT !.fillStyle = settings.frameColor]
        c3 == [c2 EXCEPT !.fillStyle = settings.backgroundColor]
        c4 == [c3 EXCEPT !.fillStyle = settings.frameColor]
        dividerX == settings.contentWidth + fw * 2
    IN  [c |-> c4,
         ops |-> << FillRect("base", c1, 0, 0, w, h),
                    FillRect("base", c2, fw, fw, w - fw * 2, h - fw * 2),
                    FillRect("base", c3, fw * 2, fw * 2, w - fw * 4, h - fw * 4),
                    FillRect("base", c4, dividerX, fw, fw, h - fw * 2) >>]

\* lines 204-215 and 282-293: the grey container and its white inside.
drawContainer(part, c0) ==
    LET cp == settings.containerPadding
        c1 == [c0 EXCEPT !.fillStyle = settings.containerBorderColor]
        c2 == [c1 EXCEPT !.fillStyle = "#ffffff"]
    IN  [c |-> c2,
         ops |-> << FillRect(part, c1, containerX, containerY,
                             containerWidth, containerHeight),
                    FillRect(part, c2, containerX + cp, containerY + cp,
                             containerWidth - cp * 2, containerHeight - cp * 2) >>]

(***************************************************************************)
(* renderImageContent, the load handler (imageProcessor.js 189-246).       *)
(***************************************************************************)
\* line 240: ctx.drawImage(img, imageX, imageY, scaledWidth, scaledHeight)
drawImage(box, width, height, fit) ==
    [c |-> box.c,
     ops |-> box.ops \o
             << Ev("paint", "image", "drawImage", box.c, <<width, height>>,
                   <<>>, <<fit.imageX, fit.imageY, fit.scaledWidth,
                           fit.scaledHeight>>, TRUE) >>]

imageOnload(c0, width, height) ==
    drawImage(drawContainer("image", c0), width, height, FitImage(width, height))

imageSrcPrimaryOnly(cont) == cont.imageUrl[1]

\* line 253: content.displayUrl || content.imageUrl
imageSrc(cont) ==
    IF Truthy(cont.displayUrl) THEN cont.displayUrl[1] ELSE cont.imageUrl[1]

(***************************************************************************)
(* renderTextContent (imageProcessor.js 264-339).                          *)
(***************************************************************************)
\* fontSize * 1.2 and fontSize * 1.4, in 1/20 pixel.
Times12(size) == (Px(size) * 12) \div 10

Times14(size) == (Px(size) * 14) \div 10

textFontSize == 16

\* The value null: a text that is present ("text" in content) and is not a
\* string.
Null == <<"null">>

IsString(v) == v # Null

\* The message of the TypeError of null.split(" ") (wrapText, line 499).
SplitOfNull == <<"Cannot read properties of null (reading 'split')">>

\* lines 329-337: the catch block of renderTextContent.
CatchText(message) == <<"Failed to render text content: ">> \o message

LineFitsByItsTop(textY, i, lineHeight, bottom) ==
    textY + (i - 1) * lineHeight < bottom

\* lines 317-320: the i-th line (i = index + 1) is drawn when its lower edge
\* is above the inner bottom of the container.
LineFits(textY, i, lineHeight, bottom) == textY + i * lineHeight < bottom

renderTextContent(cont, c0) ==
    LET lineHeight == Times14(textFontSize)
        cp == settings.containerPadding
        tm == settings.textContainerMargin
        box == drawContainer("text", c0)
        c1 == [box.c EXCEPT !.fillStyle = "#333",
                            !.font = Font(FALSE, textFontSize, settings.titleFontFamily),
                            !.textBaseline = "top"]
        textX == Px(containerX + cp * 2 + tm * 2)
        textY == Px(containerY + cp * 2 + tm * 2)
        textWidth == Px(containerWidth - cp * 4 - tm * 4)
        thrown == ~IsString(cont.text[1])
        wrappedText == IF thrown THEN <<>> ELSE wrapText(cont.text[1], c1, textWidth)
        bottom == Px(containerY + containerHeight - cp * 2)
        drawn == SelectSeq([i \in 1..Len(wrappedText) |-> i],
                           LAMBDA i : LineFits(textY, i, lineHeight, bottom))
    IN  [c |-> c1,
         ops |-> box.ops \o
                 [k \in 1..Len(drawn) |->
                     FillText("text", c1, wrappedText[drawn[k]], textX,
                              textY + (drawn[k] - 1) * lineHeight)],
         error |-> IF thrown THEN Some(CatchText(SplitOfNull)) ELSE None]

(***************************************************************************)
(* addMetadata (imageProcessor.js 349-489).                                *)
(***************************************************************************)
metadataX == settings.contentWidth + settings.frameWidth * 3

metadataY == settings.frameWidth * 2 + settings.padding

imageHeight == 17

maxWidth == settings.metadataWidth - settings.padding * 2

\* line 359: the logo, at its natural size.
drawLogo(c) ==
    Ev("paint", "logo", "drawImage", c,
       <<Px(metadataX + settings.padding), Px(metadataY)>>, <<>>, <<>>, TRUE)

\* new Date(s) with !isNaN(date.getTime()), and date.toLocaleDateString().
IsoDate == <<"2024-01-15T10:00:00.000Z">>

NotADate == <<"not-a-date">>

IsValidDate(s) == s = IsoDate

toLocaleDateString(s) == IF IsValidDate(s) THEN <<"1/15/2024">> ELSE <<"Invalid", SPACE, "Date">>

dateTextAlwaysFormatted(created_at) == toLocaleDateString(created_at)

\* lines 412-420: the formatted date when the string parses, else the string.
dateText(created_at) ==
    IF IsValidDate(created_at) THEN toLocaleDateString(created_at)
    ELSE created_at

\* The metadata blocks take and return d = [c, ops, y]; y is currentY.
\* A wrapped block: lines 366-384 (title) and 387-404 (description).
WrappedBlock(part, c1, text, size, d) ==
    LET wrapped == wrapText(text, c1, Px(maxWidth))
    IN  [c |-> c1,
         ops |-> d.ops \o
                 [i \in 1..Len(wrapped) |->
                     FillText(part, c1, wrapped[i],
                              Px(metadataX + settings.padding),
                              d.y + (i - 1) * Times12(size))],
         y |-> d.y + Len(wrapped) * Times12(size) + Px(settings.spaceBetween)]

TitleBlock(cont, d) ==
    IF Truthy(cont.title)
    THEN WrappedBlock("title",
             [d.c EXCEPT !.font = Font(TRUE, settings.titleFontSize,
                                       settings.titleFontFamily),
                         !.fillStyle = settings.titleColor,
                         !.textBaseline = "top"],
             cont.title[1], settings.titleFontSize, d)
    ELSE d

DescriptionBlockAlwaysAdvances(cont, d) ==
    IF Truthy(cont.description)
    THEN WrappedBlock("description",
             [d.c EXCEPT !.font = Font(FALSE, settings.descriptionFontSize,
                                       settings.metadataFontFamily),
                         !.fillStyle = settings.metadataColor],
             cont.description[1], settings.descriptionFontSize, d)
    ELSE [d EXCEPT !.y = d.y + Times12(settings.descriptionFontSize)
                               + Px(settings.spaceBetween)]

DescriptionBlock(cont, d) ==
    IF Truthy(cont.description)
    THEN WrappedBlock("description",
             [d.c EXCEPT !.font = Font(FALSE, settings.descriptionFontSize,
                                       settings.metadataFontFamily),
                         !.fillStyle = settings.metadataColor],
             cont.description[1], settings.descriptionFontSize, d)
    ELSE d

DateBlockKeepsCursor(cont, d) ==
    IF Truthy(cont.created_at)
    THEN LET c1 == [d.c EXCEPT !.font = Font(FALSE, settings.dateAddedFontSize,
                                             settings.metadataFontFamily),
                               !.fillStyle = settings.metadataColor]
         IN  [c |-> c1,
              ops |-> Append(d.ops,
                        FillText("date", c1,
                                 <<"Added:", SPACE>> \o dateText(cont.created_at[1]),
                                 Px(metadataX + settings.padding), d.y)),
              y |-> d.y]
    ELSE d

\* lines 407-426
DateBlock(cont, d) ==
    IF Truthy(cont.created_at)
    THEN LET c1 == [d.c EXCEPT !.font = Font(FALSE, settings.dateAddedFontSize,
                                             settings.metadataFontFamily),
                               !.fillStyle = settings.metadataColor]
         IN  [c |-> c1,
              ops |-> Append(d.ops,
                        FillText("date", c1,
                                 <<"Added:", SPACE>> \o dateText(cont.created_at[1]),
                                 Px(metadataX + settings.padding), d.y)),
              y |-> d.y + Times12(settings.dateAddedFontSize)
                        + Px(settings.spaceBetween)]
    ELSE d

\* lines 429-438
AuthorBlock(cont, d) ==
    IF Truthy(cont.username)
    THEN LET c1 == [d.c EXCEPT !.font = Font(FALSE, settings.authorFontSize,
                                             settings.metadataFontFamily),
                               !.fillStyle = settings.metadataColor]
         IN  [c |-> c1,
              ops |-> Append(d.ops,
                        FillText("author", c1,
                                 <<"By:", SPACE>> \o cont.username[1],
                                 Px(metadataX + settings.padding), d.y)),
              y |-> d.y]
    ELSE d

\* lines 359-438: what addMetadata paints once the logo is decoded.
drawMetadata(cont, c0) ==
    LET start == [c |-> c0, ops |-> <<drawLogo(c0)>>,
                  y |-> Px(metadataY + imageHeight + settings.padding)]
    IN  AuthorBlock(cont, DateBlock(cont, DescriptionBlock(cont,
            TitleBlock(cont, start))))

drawCodeWithoutBacking(c0) ==
    LET size == settings.qrCodeSize
        qrY == settings.canvasHeight - size - settings.padding
        qrX == metadataX + (settings.metadataWidth - size - settings.padding * 2) \div 2
    IN  [c |-> c0,
         ops |-> << Ev("paint", "qrimage", "drawImage", c0,
                       <<Px(qrX), Px(qrY), Px(size), Px(size)>>, <<>>, <<>>, TRUE) >>]

\* lines 454-478: the backing rectangle and the code bitmap.
drawCode(c0) ==
    LET size == settings.qrCodeSize
        qrY == settings.canvasHeight - size - settings.padding
        qrX == metadataX + (settings.metadataWidth - size - settings.padding * 2) \div 2
        c1 == [c0 EXCEPT !.fillStyle = "white"]
    IN  [c |-> c1,
         ops |-> << FillRect("qrimage", c1, qrX - 5, qrY - 5, size + 10, size + 10),
                    Ev("paint", "qrimage", "drawImage", c1,
                       <<Px(qrX), Px(qrY), Px(size), Px(size)>>, <<>>, <<>>, TRUE) >>]

\* QRCode.toDataURL (line 441) rejects a payload over the capacity of the
\* largest symbol at the default error correction level.
PayloadBytes(q) ==
    CASE q = <<"https://www.are.na/block/35251863">> -> 33
      [] q = <<"over-capacity-payload">> -> 3000
      [] q = <<"https://www.are.na/block/35251863?over-capacity-query">> -> 3000
      [] OTHER -> 1

Encodable(q) == PayloadBytes(q) <= 2331

\* The message of the error QRCode.toDataURL rejects with.
TooBig == <<"The amount of data is too big to be stored in a QR Code">>

(***************************************************************************)
(* generateContentWithQR (imageProcessor.js 65-134) as a state machine.    *)
(* A step is the code between two suspension points: the call up to the    *)
(* first await, then one step per settled promise or image event.          *)
(***************************************************************************)
\* The page of main.js (lines 8-15) before any run: nothing is displayed.
NoDom ==
    [loading |-> "none", error |-> "none", errorText |-> <<>>,
     result |-> "none", src |-> None, download |-> None, value |-> <<>>]

Content(type, text, imageUrl, displayUrl, title, description, created_at, username) ==
    [type |-> type, text |-> text, imageUrl |-> imageUrl,
     displayUrl |-> displayUrl, title |-> title, description |-> description,
     created_at |-> created_at, username |-> username]

ImageUrl == <<"https://x/img.png">>

DisplayUrl == <<"https://x/display.png">>

ShortText == <<"a", SPACE, "W">>

LongText ==
    <<"LongTitleWord", SPACE, "LongTitleWord", SPACE, "LongTitleWord", SPACE,
      "LongTitleWord">>

\* Twenty-one words, each wider than half the text width: twenty-one lines,
\* more than the container holds.
TallText == [i \in 1..41 |-> IF i % 2 = 1 THEN "WiderThanHalfALine" ELSE SPACE]

\* The bodies: [type, text, imageUrl, displayUrl].
Bodies ==
    { <<"text", Some(<<>>), None, None>>,
      <<"text", Some(ShortText), None, None>>,
      <<"text", Some(LongText), None, None>>,
      <<"text", Some(TallText), None, None>>,
      <<"text", Some(Null), None, None>>,
      <<"text", None, None, None>>,
      <<"image", None, Some(ImageUrl), None>>,
      <<"image", None, Some(ImageUrl), Some(<<>>)>>,
      <<"image", None, Some(ImageUrl), Some(DisplayUrl)>>,
      <<"image", None, None, None>>,
      <<"video", None, None, None>> }

OneLineTitle == <<"Title">>

TwoLineTitle == <<"Title", SPACE, "Title", SPACE, "Title", SPACE, "Title">>

Titles == {None, Some(<<>>), Some(<<SPACE>>), Some(OneLineTitle), Some(TwoLineTitle)}

Descriptions == {None, Some(<<>>), Some(<<"a", SPACE, "a">>)}

Dates == {None, Some(<<>>), Some(NotADate), Some(IsoDate)}

Usernames == {None, Some(<<>>), Some(<<"W">>)}

Contents ==
    { Content(b[1], b[2], b[3], b[4], t, d, c, u) :
        b \in Bodies, t \in Titles, d \in Descriptions, c \in Dates,
        u \in Usernames }

Payloads == { <<"https://www.are.na/block/35251863">>, <<"over-capacity-payload">> }

\* The sizes of the bitmaps the subject image loader may deliver.
BitmapSizes == { <<1000, 500>>, <<1, 49>> }

\* The messages a failed logo decode may carry (a DOMException; browsers
\* differ, and the message may be empty).
LogoErrors == { <<"The source image cannot be decoded.">>, <<>> }

NoContent == Content("", None, None, None, None, None, None, None)

NoResult == [kind |-> "pending", message |-> <<>>, data |-> <<>>]

Paints(t) == SelectSeq(t, IsPaint)

\* The serialization of a canvas left at its default size of 300 x 150.
toDataURLDefaultSize(t) ==
    [kind |-> "image", message |-> <<>>,
     data |-> <<"image/jpeg", 300, 150, Paints(t)>>]

\* canvas.toDataURL("image/jpeg", 0.9): a function of the canvas size and
\* of what was painted on it.
toDataURL(t) ==
    [kind |-> "image", message |-> <<>>,
     data |-> <<"image/jpeg", settings.canvasWidth, settings.canvasHeight, Paints(t)>>]

RethrowUnwrapped(message) ==
    [kind |-> "error", message |-> message, data |-> <<>>]

\* lines 126-133: the catch block of generateContentWithQR.
WrapError(message) ==
    [kind |-> "error",
     message |-> <<"Failed to generate content: ">>
                 \o (IF message # <<>> THEN message ELSE <<"Unknown error">>),
     data |-> <<>>]

ReusedCanvas(r) == trace[r]

\* lines 99-107: a new canvas, cleared, with a fresh context.
NewCanvas(r) == <<>>

NewContext(r) == DefaultCtx

\* A promise of render r rejects with `message`: the await in
\* generateContentWithQR throws and the catch block rethrows.
Fail(r, events, part, message) ==
    /\ trace' = [trace EXCEPT ![r] = @ \o events \o <<Throw(part, ctx[r], message)>>]
    /\ result' = [result EXCEPT ![r] = WrapError(message)]
    /\ pc' = [pc EXCEPT ![r] = "failed"]
    /\ UNCHANGED <<content, qrData, ctx, prev, call, ret, dom, run>>

IsTextVariantNonEmpty(cont) == cont.type = "text" /\ Truthy(cont.text)

\* line 113: content.type === "text" && "text" in content
IsTextVariant(cont) == cont.type = "text" /\ cont.text # None

\* line 115: content.type === "image" && "imageUrl" in content
IsImageVariant(cont) == cont.type = "image" /\ cont.imageUrl # None

\* lines 97-119, up to the first await: the canvas, the base layout and the
\* dispatch on the content type.
Start(r, cont, q) ==
    LET base == drawBaseLayout(NewContext(r))
    IN  /\ content' = [content EXCEPT ![r] = cont]
        /\ qrData' = [qrData EXCEPT ![r] = q]
        /\ IF IsTextVariant(cont)
           THEN LET d == renderTextContent(cont, base.c)
                IN  /\ ctx' = [ctx EXCEPT ![r] = d.c]
                    /\ IF d.error = None
                       THEN /\ trace' = [trace EXCEPT ![r] =
                                    NewCanvas(r) \o base.ops \o d.ops]
                            /\ pc' = [pc EXCEPT ![r] = "contentDone"]
                            /\ result' = [result EXCEPT ![r] = NoResult]
                       ELSE /\ trace' = [trace EXCEPT ![r] =
                                    NewCanvas(r) \o base.ops \o d.ops
                                    \o <<Throw("text", d.c, d.error[1])>>]
                            /\ pc' = [pc EXCEPT ![r] = "failed"]
                            /\ result' = [result EXCEPT ![r] = WrapError(d.error[1])]
           ELSE IF IsImageVariant(cont)
           THEN /\ trace' = [trace EXCEPT ![r] =
                        NewCanvas(r) \o base.ops
                        \o <<LoadStart("image", "image", base.c, imageSrc(cont))>>]
                /\ ctx' = [ctx EXCEPT ![r] = base.c]
                /\ pc' = [pc EXCEPT ![r] = "imageLoading"]
                /\ result' = [result EXCEPT ![r] = NoResult]
           ELSE /\ trace' = [trace EXCEPT ![r] =
                        NewCanvas(r) \o base.ops
                        \o <<Throw("dispatch", base.c, <<"Invalid content provided">>)>>]
                /\ ctx' = [ctx EXCEPT ![r] = base.c]
                /\ pc' = [pc EXCEPT ![r] = "failed"]
                /\ result' = [result EXCEPT ![r] = WrapError(<<"Invalid content provided">>)]
        /\ UNCHANGED <<call, ret, dom, run>>

\* lines 99-104: canvas.getContext("2d") returns null and the call throws
\* before anything is painted.
StartWithoutContext(r, cont, q) ==
    /\ content' = [content EXCEPT ![r] = cont]
    /\ qrData' = [qrData EXCEPT ![r] = q]
    /\ trace' = [trace EXCEPT ![r] =
                    NewCanvas(r)
                    \o <<Throw("canvas", NewContext(r), <<"Couldn't get canvas context">>)>>]
    /\ ctx' = [ctx EXCEPT ![r] = NewContext(r)]
    /\ pc' = [pc EXCEPT ![r] = "failed"]
    /\ result' = [result EXCEPT ![r] = WrapError(<<"Couldn't get canvas context">>)]
    /\ UNCHANGED <<call, ret, dom, run>>

\* A first call, with any content and payload.
Call(r) ==
    /\ pc[r] = "idle"
    /\ \E cont \in Contents, q \in Payloads : Start(r, cont, q)
    /\ UNCHANGED prev

\* A first call in a host that hands out no 2d context.
CallWithoutContext(r) ==
    /\ pc[r] = "idle"
    /\ \E cont \in Contents, q \in Payloads : StartWithoutContext(r, cont, q)
    /\ UNCHANGED prev

ImageErrorResolves(r) ==
    /\ pc[r] = "imageLoading"
    /\ trace' = [trace EXCEPT ![r] =
                    Append(@, LoadEnd("image", "image", ctx[r], <<>>, FALSE))]
    /\ pc' = [pc EXCEPT ![r] = "contentDone"]
    /\ UNCHANGED <<content, qrData, ctx, result, prev, call, ret, dom, run>>

\* img.onload (lines 189-246): the container and the fitted bitmap.
PaintedOnSharedCanvas(r, events, d) ==
    /\ trace' = [trace EXCEPT ![1] = @ \o events \o d.ops]
    /\ ctx' = [ctx EXCEPT ![1] = d.c]

\* A load handler of render r paints through the context its own call
\* created (ctx is a local of generateContentWithQR, captured by the handler).
Painted(r, events, d) ==
    /\ trace' = [trace EXCEPT ![r] = @ \o events \o d.ops]
    /\ ctx' = [ctx EXCEPT ![r] = d.c]

ImageLoaded(r) ==
    /\ pc[r] = "imageLoading"
    /\ \E size \in BitmapSizes :
          Painted(r, <<LoadEnd("image", "image", ctx[r], size, TRUE)>>,
                  imageOnload(ctx[r], size[1], size[2]))
    /\ pc' = [pc EXCEPT ![r] = "contentDone"]
    /\ UNCHANGED <<content, qrData, result, prev, call, ret, dom, run>>

ImageFailedLeavesContainer(r) ==
    /\ pc[r] = "imageLoading"
    /\ Fail(r, <<LoadEnd("image", "image", ctx[r], <<>>, FALSE)>>
               \o drawContainer("image", ctx[r]).ops, "image",
            <<"Failed to load image">>)

\* img.onerror (lines 248-250)
ImageFailed(r) ==
    /\ pc[r] = "imageLoading"
    /\ Fail(r, <<LoadEnd("image", "image", ctx[r], <<>>, FALSE)>>, "image",
            <<"Failed to load image">>)

\* lines 121-122 and 349-357: the await of the content stage resumes and
\* addMetadata starts decoding the logo.
ContentResolved(r) ==
    /\ pc[r] = "contentDone"
    /\ trace' = [trace EXCEPT ![r] =
                    Append(@, LoadStart("logo", "logo", ctx[r], <<"./public/arena.png">>))]
    /\ pc' = [pc EXCEPT ![r] = "logoDecoding"]
    /\ UNCHANGED <<content, qrData, ctx, result, prev, call, ret, dom, run>>

LogoDecodedSkipsCode(r) ==
    /\ pc[r] = "logoDecoding"
    /\ LET d == drawMetadata(content[r], ctx[r])
       IN  /\ trace' = [trace EXCEPT ![r] =
                            Append(@, LoadEnd("logo", "logo", ctx[r], <<>>, TRUE))
                            \o d.ops]
           /\ ctx' = [ctx EXCEPT ![r] = d.c]
    /\ pc' = [pc EXCEPT ![r] = "metadataDone"]
    /\ UNCHANGED <<content, qrData, result, prev, call, ret, dom, run>>

\* lines 357-445: image.decode() fulfils; the logo and the metadata blocks
\* are painted and QRCode.toDataURL is called.
LogoDecoded(r) ==
    /\ pc[r] = "logoDecoding"
    /\ LET d == drawMetadata(content[r], ctx[r])
       IN  /\ trace' = [trace EXCEPT ![r] =
                            Append(@, LoadEnd("logo", "logo", ctx[r], <<>>, TRUE))
                            \o d.ops
                            \o <<LoadStart("qrcode", "qrcode", d.c, qrData[r])>>]
           /\ ctx' = [ctx EXCEPT ![r] = d.c]
    /\ pc' = [pc EXCEPT ![r] = "qrGenerating"]
    /\ UNCHANGED <<content, qrData, result, prev, call, ret, dom, run>>

\* line 357: image.decode() rejects.
LogoFailed(r) ==
    /\ pc[r] = "logoDecoding"
    /\ \E message \in LogoErrors :
          Fail(r, <<LoadError("logo", "logo", ctx[r], message)>>, "logo", message)

\* lines 441-449: the code is generated and its bitmap starts loading.
QrGenerated(r) ==
    /\ pc[r] = "qrGenerating"
    /\ Encodable(qrData[r])
    /\ trace' = [trace EXCEPT ![r] =
                    @ \o << LoadEnd("qrcode", "qrcode", ctx[r], <<>>, TRUE),
                            LoadStart("qrimage", "qrimage", ctx[r], qrData[r]) >>]
    /\ pc' = [pc EXCEPT ![r] = "qrLoading"]
    /\ UNCHANGED <<content, qrData, ctx, result, prev, call, ret, dom, run>>

\* line 441: QRCode.toDataURL rejects.
QrGenerateFailed(r) ==
    /\ pc[r] = "qrGenerating"
    /\ ~Encodable(qrData[r])
    /\ Fail(r, <<LoadError("qrcode", "qrcode", ctx[r], TooBig)>>, "qrcode", TooBig)

QrLoadedDrawsNothing(r) ==
    /\ pc[r] = "qrLoading"
    /\ trace' = [trace EXCEPT ![r] =
                    Append(@, LoadEnd("qrimage", "qrimage", ctx[r],
                                      <<settings.qrCodeSize, settings.qrCodeSize>>, TRUE))]
    /\ pc' = [pc EXCEPT ![r] = "metadataDone"]
    /\ UNCHANGED <<content, qrData, ctx, result, prev, call, ret, dom, run>>

\* qrImg.onload (lines 452-484)
QrLoaded(r) ==
    /\ pc[r] = "qrLoading"
    /\ LET d == drawCode(ctx[r])
       IN  /\ trace' = [trace EXCEPT ![r] =
                            Append(@, LoadEnd("qrimage", "qrimage", ctx[r],
                                              <<settings.qrCodeSize, settings.qrCodeSize>>, TRUE))
                            \o d.ops]
           /\ ctx' = [ctx EXCEPT ![r] = d.c]
    /\ pc' = [pc EXCEPT ![r] = "metadataDone"]
    /\ UNCHANGED <<content, qrData, result, prev, call, ret, dom, run>>

QrLoadFailedUnhandled(r) ==
    /\ pc[r] = "qrLoading"
    /\ trace' = [trace EXCEPT ![r] =
                    Append(@, LoadEnd("qrimage", "qrimage", ctx[r], <<>>, FALSE))]
    /\ pc' = [pc EXCEPT ![r] = "suspended"]
    /\ UNCHANGED <<content, qrData, ctx, result, prev, call, ret, dom, run>>

\* qrImg.onerror (lines 485-487)
QrLoadFailed(r) ==
    /\ pc[r] = "qrLoading"
    /\ Fail(r, <<LoadEnd("qrimage", "qrimage", ctx[r], <<>>, FALSE)>>, "qrimage",
            <<"Failed to generate QR code">>)

\* lines 122-125: the await of addMetadata resumes and the canvas is
\* serialized and returned.
Return(r) ==
    /\ pc[r] = "metadataDone"
    /\ trace' = [trace EXCEPT ![r] =
                    Append(@, Ev("serialize", "serialize", "toDataURL", ctx[r],
                                 <<>>, <<>>, <<>>, TRUE))]
    /\ result' = [result EXCEPT ![r] = toDataURL(trace[r])]
    /\ pc' = [pc EXCEPT ![r] = "done"]
    /\ UNCHANGED <<content, qrData, ctx, prev, call, ret, dom, run>>

Step(r) ==
    \/ ImageLoaded(r)
    \/ ImageFailed(r)
    \/ ContentResolved(r)
    \/ LogoDecoded(r)
    \/ LogoFailed(r)
    \/ QrGenerated(r)
    \/ QrGenerateFailed(r)
    \/ QrLoaded(r)
    \/ QrLoadFailed(r)
    \/ Return(r)

InitRender ==
    /\ content = [r \in {1} |-> NoContent]
    /\ qrData = [r \in {1} |-> <<>>]
    /\ pc = [r \in {1} |-> "idle"]
    /\ ctx = [r \in {1} |-> DefaultCtx]
    /\ trace = [r \in {1} |-> <<>>]
    /\ result = [r \in {1} |-> NoResult]
    /\ prev = None
    /\ call = [fn |-> "generateContentWithQR"]
    /\ ret = None
    /\ dom = NoDom
    /\ run = <<>>

Next == \E r \in DOMAIN pc : Call(r) \/ CallWithoutContext(r) \/ Step(r)

Spec == InitRender /\ [][Next]_vars

(***************************************************************************)
(* Two calls of generateContentWithQR, one after the other has settled.    *)
(* prev remembers the first call: its arguments, its events and its        *)
(* result.                                                                 *)
(***************************************************************************)
FewBodies ==
    { <<"text", Some(ShortText), None, None>>,
      <<"text", Some(Null), None, None>>,
      <<"image", None, Some(ImageUrl), None>>,
      <<"video", None, None, None>> }

FewContents ==
    { Content(b[1], b[2], b[3], b[4], None, None, None, None) : b \in FewBodies }
    \cup
    { Content(b[1], b[2], b[3], b[4], Some(OneLineTitle), Some(<<"a", SPACE, "a">>),
              Some(NotADate), Some(<<"W">>)) : b \in FewBodies }

Settled(r) == pc[r] \in {"done", "failed"}

Remembered(r) ==
    [content |-> content[r], qrData |-> qrData[r], trace |-> trace[r],
     result |-> result[r]]

CallFirst(r) ==
    /\ pc[r] = "idle"
    /\ \E cont \in FewContents, q \in Payloads :
          Start(r, cont, q) \/ StartWithoutContext(r, cont, q)
    /\ UNCHANGED prev

\* The positions at which a call is suspended: on a pending load (lines 253,
\* 357, 441, 449) or on a settled promise whose await has yet to resume
\* (lines 114-122).
Suspended(r) ==
    pc[r] \in {"imageLoading", "contentDone", "logoDecoding", "qrGenerating",
               "qrLoading", "metadataDone"}

\* Call r leaves the position it is suspended at.  Every step of a call
\* from such a position is a Step(r): its load completing, with either
\* outcome, or its await resuming.
Resumed(r) ==
    /\ Suspended(r)
    /\ pc' \in {[pc EXCEPT ![r] = p] :
                   p \in {"contentDone", "logoDecoding", "qrGenerating",
                          "qrLoading", "metadataDone", "done", "failed"}}

\* One call under a host whose event loop keeps running and whose loads all
\* complete: a suspended call is eventually resumed.  The fairness is on pc,
\* where the position alone decides whether a resumption is enabled.
NextLive == CallFirst(1) \/ Step(1)

SpecLive == InitRender /\ [][NextLive]_vars /\ WF_pc(Resumed(1))

\* The caller calls again once the first call has settled.
CallAgain(r) ==
    /\ Settled(r)
    /\ prev = None
    /\ prev' = Some(Remembered(r))
    /\ \E cont \in FewContents, q \in Payloads :
          Start(r, cont, q) \/ StartWithoutContext(r, cont, q)

NextRepeat == \E r \in DOMAIN pc : CallFirst(r) \/ CallAgain(r) \/ Step(r)

SpecRepeat == InitRender /\ [][NextRepeat]_vars

(***************************************************************************)
(* Several calls of generateContentWithQR in flight at once: each call has *)
(* its own canvas, context and images, and the steps of the calls          *)
(* interleave at their suspension points in any order.                     *)
(***************************************************************************)
\* The calls: a text with a payload that encodes, and an image with a
\* payload over the capacity of the code.
ConcurrentCalls ==
    { << Content("text", Some(ShortText), None, None, Some(OneLineTitle),
                 Some(<<"a", SPACE, "a">>), Some(NotADate), Some(<<"W">>)),
         <<"https://www.are.na/block/35251863">> >>,
      << Content("image", None, Some(ImageUrl), Some(DisplayUrl), Some(TwoLineTitle),
                 None, None, None),
         <<"over-capacity-payload">> >> }

InitConcurrent ==
    /\ content = [r \in 1..MaxRenders |-> NoContent]
    /\ qrData = [r \in 1..MaxRenders |-> <<>>]
    /\ pc = [r \in 1..MaxRenders |-> "idle"]
    /\ ctx = [r \in 1..MaxRenders |-> DefaultCtx]
    /\ trace = [r \in 1..MaxRenders |-> <<>>]
    /\ result = [r \in 1..MaxRenders |-> NoResult]
    /\ prev = None
    /\ call = [fn |-> "generateContentWithQR"]
    /\ ret = None
    /\ dom = NoDom
    /\ run = <<>>

CallConcurrent(r) ==
    /\ pc[r] = "idle"
    /\ \E c \in ConcurrentCalls : Start(r, c[1], c[2])
    /\ UNCHANGED prev

NextConcurrent == \E r \in DOMAIN pc : CallConcurrent(r) \/ Step(r)

SpecConcurrent == InitConcurrent /\ [][NextConcurrent]_vars

(***************************************************************************)
(* The page (main.js) and the block lookup (arenaProcessor.js 603-708).    *)
(* run[r] is the r-th call of generateArenaqrImage, in the order of the    *)
(* clicks; its render is render r of the machine above.                    *)
(***************************************************************************)
BlockUrl == <<"https://www.are.na/block/35251863">>

\* A block URL followed by a query too long for the code to encode.
LongBlockUrl == <<"https://www.are.na/block/35251863?over-capacity-query">>

\* String.prototype.trim on a sequence of tokens (main.js line 24).
RECURSIVE trimStart(_)
trimStart(s) ==
    IF s # <<>> /\ Head(s) = SPACE THEN trimStart(Tail(s)) ELSE s

RECURSIVE trimEnd(_)
trimEnd(s) ==
    IF s # <<>> /\ s[Len(s)] = SPACE
    THEN trimEnd(SubSeq(s, 1, Len(s) - 1)) ELSE s

trim(s) == trimEnd(trimStart(s))

\* lines 606-608: the two patterns are unanchored, so a block URL matches
\* whatever follows the digits; a blank or a profile URL does not match.
blockIdMatch(url) ==
    CASE url = BlockUrl -> Some(<<"35251863">>)
      [] url = LongBlockUrl -> Some(<<"35251863">>)
      [] OTHER -> None

\* lines 620-627: the catch block of getArenaBlockData.
FetchFailure(message) ==
    <<"Failed to fetch Are.na block: ">>
    \o (IF message # <<>> THEN message ELSE <<"Unknown error">>)

InvalidUrl == <<"Invalid Are.na URL. Please provide a valid block URL.">>

\* line 617: the message for a response that is not ok.
HttpError(status) == <<"HTTP error! status: ", status>>

\* What fetch or response.json() may reject with, and the statuses of a
\* response that is not ok.
NetworkErrors == { <<"Failed to fetch">>, <<>> }

FetchCauses == NetworkErrors \cup { HttpError("404") }

\* A block of the API (typedef ArenaBlock, lines 572-583).
Block(class, text, image, attachment, title, generated_title, description, created_at, user) ==
    [class |-> class, content |-> text, image |-> image,
     attachment |-> attachment, title |-> title,
     generated_title |-> generated_title, description |-> description,
     created_at |-> created_at, user |-> user]

TextBlock ==
    Block(Some(<<"Text">>), Some(ShortText), None, None, None,
          Some(OneLineTitle), None, Some(IsoDate), Some([username |-> <<"W">>]))

ImageBlock ==
    Block(Some(<<"Image">>), None,
          Some([original |-> ImageUrl, display |-> Some(DisplayUrl)]), None,
          Some(OneLineTitle), Some(TwoLineTitle), Some(<<>>), None, None)

\* A block with neither text, image nor attachment.
LinkBlock ==
    Block(Some(<<"Link">>), Some(<<>>), None, None, Some(OneLineTitle), None,
          None, None, None)

\* The blocks the API may serve for a block id.
ServedBlocks == { TextBlock, ImageBlock, LinkBlock }

NoValidContent == <<"No valid content found in this Are.na block">>

\* lines 642-676: the body of the content; None when the block has none.
BlockBody(blockData) ==
    LET blockClass == IF Truthy(blockData.class) THEN blockData.class[1] ELSE <<>>
    IN  IF blockClass = <<"Text">> /\ Truthy(blockData.content)
        THEN Some(<<"text", blockData.content, None, None>>)
        ELSE IF blockData.image # None
        THEN Some(<<"image", None, Some(blockData.image[1].original),
                    IF Truthy(blockData.image[1].display)
                    THEN blockData.image[1].display ELSE None>>)
        ELSE IF blockData.attachment # None /\ Truthy(Some(blockData.attachment[1].url))
        THEN Some(<<"image", None, Some(blockData.attachment[1].url), None>>)
        ELSE None

\* lines 679-698: the metadata fields copied from the block.
BlockTitle(blockData) ==
    IF Truthy(blockData.title) THEN blockData.title
    ELSE IF Truthy(blockData.generated_title) THEN blockData.generated_title
    ELSE None

IfTruthy(field) == IF Truthy(field) THEN field ELSE None

\* lines 642-698 of createArenaqrImageDataURL: the content built from a
\* block, or None when line 675 throws.
BlockContent(blockData) ==
    LET body == BlockBody(blockData)
    IN  IF body = None THEN None
        ELSE Some(Content(body[1][1], body[1][2], body[1][3], body[1][4],
                          BlockTitle(blockData),
                          IfTruthy(blockData.description),
                          IfTruthy(blockData.created_at),
                          IF blockData.user # None
                          THEN Some(blockData.user[1].username) ELSE None))

\* lines 702-707: the catch block of createArenaqrImageDataURL.
ProcessFailure(message) == <<"Failed to process Are.na block: ">> \o message

ShowLoadingKeepsPanels(d) == [d EXCEPT !.loading = "block"]

\* main.js lines 59-61
ShowLoading(d) ==
    [d EXCEPT !.loading = "block", !.error = "none", !.result = "none"]

\* main.js lines 107-113
showError(d, message) == [d EXCEPT !.errorText = message, !.error = "block"]

\* main.js lines 73-84: the image, the result panel and the download action.
ShowResult(d, imageDataURL) ==
    [d EXCEPT !.src = Some(imageDataURL), !.result = "flex",
              !.download = Some(imageDataURL)]

\* main.js line 90
HideLoading(d) == [d EXCEPT !.loading = "none"]

InFlight(r) == run[r].at = "inFlight"

Finished(r) == run[r].at = "finished"

\* Run r ends.  run[r].during keeps the runs that were in flight when r
\* started.
Finish(r) == run' = [run EXCEPT ![r] = [@ EXCEPT !.at = "finished"]]

\* What the user typed before clicking Generate.
Typed == { <<SPACE>>, LongBlockUrl \o <<SPACE>> }

\* The URLs the Example button draws from (main.js lines 29-35).
ExampleUrls == { BlockUrl }

\* generateArenaqrImage(url) up to its first await (main.js 46-65 and
\* arenaProcessor.js 603-615).  A URL that does not match rejects in
\* getArenaBlockData before any await, and the catch and finally blocks of
\* generateArenaqrImage run in the microtasks of the same click.
Clicked(r, value, url) ==
    /\ run[r].at = "idle"
    /\ r > 1 => run[r - 1].at # "idle"
    /\ LET shown == ShowLoading([dom EXCEPT !.value = value])
           during == {o \in DOMAIN run : InFlight(o)}
       IN  IF blockIdMatch(url) = None
           THEN /\ dom' = HideLoading(showError(shown, FetchFailure(InvalidUrl)))
                /\ run' = [run EXCEPT ![r] =
                              [at |-> "finished", url |-> url, during |-> during]]
           ELSE /\ dom' = shown
                /\ run' = [run EXCEPT ![r] =
                              [at |-> "inFlight", url |-> url, during |-> during]]
    /\ UNCHANGED <<renderVars, call, ret>>

\* main.js lines 22-26: the Generate button, with the trimmed input.
Generate(r) == \E value \in Typed : Clicked(r, value, trim(value))

\* main.js lines 28-41: the Example button.
Example(r) == \E url \in ExampleUrls : Clicked(r, url, url)

\* arenaProcessor.js 615-619 and 637-701, main.js 65-70: the response is ok
\* and its body is parsed; createArenaqrImageDataURL builds the content and
\* calls generateContentWithQR, or throws at line 675.
Responded(r) ==
    /\ InFlight(r)
    /\ pc[r] = "idle"
    /\ \E blockData \in ServedBlocks :
          IF BlockContent(blockData) = None
          THEN /\ dom' = HideLoading(showError(dom, ProcessFailure(NoValidContent)))
               /\ Finish(r)
               /\ UNCHANGED <<renderVars, call, ret>>
          ELSE /\ Start(r, BlockContent(blockData)[1], run[r].url)
               /\ UNCHANGED prev

\* arenaProcessor.js 615-628, main.js 85-91: fetch or response.json()
\* rejects, or the response is not ok.
FetchFailed(r) ==
    /\ InFlight(r)
    /\ pc[r] = "idle"
    /\ \E cause \in FetchCauses :
          dom' = HideLoading(showError(dom, FetchFailure(cause)))
    /\ Finish(r)
    /\ UNCHANGED <<renderVars, call, ret>>

\* main.js lines 70-84 and 90: the render returned.
Rendered(r) ==
    /\ InFlight(r)
    /\ pc[r] = "done"
    /\ dom' = HideLoading(ShowResult(dom, result[r].data))
    /\ Finish(r)
    /\ UNCHANGED <<renderVars, call, ret>>

\* arenaProcessor.js 702-707, main.js 85-91: the render threw.
RenderFailed(r) ==
    /\ InFlight(r)
    /\ pc[r] = "failed"
    /\ dom' = HideLoading(showError(dom, ProcessFailure(result[r].message)))
    /\ Finish(r)
    /\ UNCHANGED <<renderVars, call, ret>>

InitPage ==
    /\ content = [r \in 1..MaxRuns |-> NoContent]
    /\ qrData = [r \in 1..MaxRuns |-> <<>>]
    /\ pc = [r \in 1..MaxRuns |-> "idle"]
    /\ ctx = [r \in 1..MaxRuns |-> DefaultCtx]
    /\ trace = [r \in 1..MaxRuns |-> <<>>]
    /\ result = [r \in 1..MaxRuns |-> NoResult]
    /\ prev = None
    /\ call = [fn |-> "generateArenaqrImage"]
    /\ ret = None
    /\ dom = NoDom
    /\ run = [r \in 1..MaxRuns |->
                 [at |-> "idle", url |-> <<>>, during |-> {}]]

NextPage ==
    \E r \in DOMAIN run :
        \/ Generate(r)
        \/ Example(r)
        \/ Responded(r)
        \/ FetchFailed(r)
        \/ Step(r)
        \/ Rendered(r)
        \/ RenderFailed(r)

SpecPage == InitPage /\ [][NextPage]_vars

NoneInFlight == \A r \in DOMAIN run : ~InFlight(r)

\* A user who waits for the run in flight to finish before clicking again.
ClickedWhenIdle(r) == NoneInFlight /\ (Generate(r) \/ Example(r))

NextPageIdle ==
    \E r \in DOMAIN run :
        \/ ClickedWhenIdle(r)
        \/ Responded(r)
        \/ FetchFailed(r)
        \/ Step(r)
        \/ Rendered(r)
        \/ RenderFailed(r)

SpecPageIdle == InitPage /\ [][NextPageIdle]_vars

(***************************************************************************)
(* Direct calls of the pure functions: the arguments are drawn by Init and *)
(* the call is one step.  The render state is empty in these               *)
(* specifications.                                                         *)
(***************************************************************************)
Chars == {SPACE, "a", "W"}

Strings == UNION {[1..n -> Chars] : n \in 0..MaxLen}

\* A 4px font: a space measures 1px, "a" 2px, "W" 4px.
WrapCtx ==
    [fillStyle |-> "#000000",
     font |-> [bold |-> FALSE, size |-> 4, family |-> "sans-serif"],
     textBaseline |-> "alphabetic"]

NoRenders ==
    /\ content = <<>>
    /\ qrData = <<>>
    /\ pc = <<>>
    /\ ctx = <<>>
    /\ trace = <<>>
    /\ result = <<>>
    /\ prev = None
    /\ dom = NoDom
    /\ run = <<>>

InitWrap ==
    /\ NoRenders
    /\ call \in {[fn |-> "wrapText", text |-> t, maxWidth |-> m] :
                    t \in Strings, m \in (-1)..MaxWidth}
    /\ ret = None

WrapTextCall ==
    /\ call.fn = "wrapText"
    /\ ret = None
    /\ ret' = Some(wrapText(call.text, WrapCtx, Px(call.maxWidth)))
    /\ UNCHANGED <<call, renderVars, dom, run>>

SpecWrap == InitWrap /\ [][WrapTextCall]_vars

\* Every bitmap size up to MaxDim, and the 1000 x 500 bitmap of Scenario B.
Dims == ((1..MaxDim) \X (1..MaxDim)) \cup {<<1000, 500>>}

InitFit ==
    /\ NoRenders
    /\ call \in {[fn |-> "fit", width |-> d[1], height |-> d[2]] : d \in Dims}
    /\ ret = None

FitCall ==
    /\ call.fn = "fit"
    /\ ret = None
    /\ ret' = Some(FitImage(call.width, call.height))
    /\ UNCHANGED <<call, renderVars, dom, run>>

SpecFit == InitFit /\ [][FitCall]_vars

(***************************************************************************)
(* Claims about the order of a render and about its failures.              *)
(***************************************************************************)
Rendering == DOMAIN pc # {}

\* The events of the render so far.
T == trace[1]

\* The place of a piece of code in the order of generateContentWithQR.
PartRank(part) ==
    CASE part \in {"canvas", "base"} -> 1
      [] part \in {"image", "text", "dispatch"} -> 2
      [] part = "logo" -> 3
      [] part = "title" -> 4
      [] part = "description" -> 5
      [] part = "date" -> 6
      [] part = "author" -> 7
      [] part = "qrcode" -> 8
      [] part = "qrimage" -> 9
      [] part = "serialize" -> 10

HasEvent(t, P(_)) == \E i \in 1..Len(t) : P(t[i])

IsCodeDrawn(e) == e.part = "qrimage" /\ e.op = "drawImage"

IsSerialize(e) == e.ev = "serialize"

IsFailure(e) == e.ev = "throw" \/ (e.ev = "loadEnd" /\ ~e.ok)

\* C1: the events of a render are in the order base layout, content, logo,
\* title, description, date, author, code, serialization; a load that was
\* started is the next thing to resolve, successfully, before anything else
\* is painted or started; the surface is serialized only after the code
\* bitmap has been drawn, and a finished render has painted every stage.
C1_StagesInOrder ==
    Rendering =>
        /\ \A i, j \in 1..Len(T) :
              i < j => PartRank(T[i].part) <= PartRank(T[j].part)
        /\ \A i \in 1..Len(T) :
              (T[i].ev = "loadStart" /\ i < Len(T)) =>
                  /\ T[i + 1].ev = "loadEnd"
                  /\ T[i + 1].op = T[i].op
                  /\ (i + 1 < Len(T) /\ T[i + 2].ev # "throw") => T[i + 1].ok
        /\ \A j \in 1..Len(T) :
              IsSerialize(T[j]) =>
                  /\ j = Len(T)
                  /\ \E i \in 1..(j - 1) : IsCodeDrawn(T[i])
                  /\ \E i \in 1..(j - 1) : T[i].part = "logo" /\ T[i].ev = "paint"
                  /\ \E i \in 1..(j - 1) :
                        T[i].part \in {"image", "text"} /\ T[i].ev = "paint"
                  /\ T[1].part = "base" /\ T[1].ev = "paint"
        /\ pc[1] = "done" <=> HasEvent(T, IsSerialize)

C1_Witness ==
    /\ Rendering
    /\ pc[1] = "done"
    /\ content[1].type = "image"
    /\ \A part \in {"base", "image", "logo", "title", "description", "date",
                    "author", "qrimage"} :
          \E i \in 1..Len(T) : T[i].part = part /\ T[i].ev = "paint"

\* C2: once a load has failed or an error was thrown in a render, the
\* render has ended in an error: the surface is not serialized, then or
\* later, and no image payload is returned, whatever was painted before.
C2_FailureReturnsNoImage ==
    Rendering =>
        (HasEvent(T, IsFailure) =>
            /\ pc[1] = "failed"
            /\ result[1].kind = "error"
            /\ result[1].data = <<>>
            /\ ~HasEvent(T, IsSerialize))

C2_Witness ==
    /\ Rendering
    /\ pc[1] = "failed"
    /\ ~Encodable(qrData[1])
    /\ T[Len(T)].part = "qrcode"
    /\ \E i \in 1..Len(T) : T[i].part = "title" /\ T[i].ev = "paint"
    /\ result[1].kind = "error"

\* The stage in which the render whose events are t failed.
FailedStage(t) == StageOf(t[Len(t)].part)

\* The message of the error the stage raised: the cause.
Cause(t) == t[Len(t)].text

FailedIn(t, res) == res.kind = "error" /\ t # <<>> /\ t[Len(t)].ev = "throw"

Prefix(res) == Head(res.message)

LoadOutcome(e) == [asset |-> e.op, size |-> e.args, message |-> e.text, ok |-> e.ok]

Environment(t) ==
    [context |-> ~(\E i \in 1..Len(t) : t[i].part = "canvas"),
     loads |-> LET ends == SelectSeq(t, IsLoadEnd)
               IN  [i \in 1..Len(ends) |-> LoadOutcome(ends[i])]]

\* C6: when a second call has settled that was given the same content and
\* payload as the first and whose loads had the same outcomes, it made the
\* same paints with the same arguments and context state, and it returned
\* the same result.
C6_SameInputSameOutput ==
    (Rendering /\ prev # None /\ Settled(1)
       /\ prev[1].content = content[1]
       /\ prev[1].qrData = qrData[1]
       /\ Environment(prev[1].trace) = Environment(T))
    => /\ Paints(prev[1].trace) = Paints(T)
       /\ prev[1].result = result[1]
       /\ prev[1].trace = T

C6_Witness ==
    /\ Rendering
    /\ prev # None
    /\ pc[1] = "done"
    /\ prev[1].content = content[1]
    /\ prev[1].qrData = qrData[1]
    /\ Environment(prev[1].trace) = Environment(T)
    /\ content[1].type = "image"
    /\ Truthy(content[1].title)
    /\ result[1].kind = "image"
    /\ Len(Paints(T)) > 10

(***************************************************************************)
(* Claims about the metadata blocks.                                       *)
(***************************************************************************)
MetadataDrawn ==
    Rendering /\ \E i \in 1..Len(T) : T[i].part = "logo" /\ T[i].ev = "paint"

Blocks == <<"title", "description", "date", "author">>

Field(cont, part) ==
    CASE part = "title" -> cont.title
      [] part = "description" -> cont.description
      [] part = "date" -> cont.created_at
      [] part = "author" -> cont.username

FontSizeOf(part) ==
    CASE part = "title" -> settings.titleFontSize
      [] part = "description" -> settings.descriptionFontSize
      [] part = "date" -> settings.dateAddedFontSize
      [] part = "author" -> settings.authorFontSize

LineHeightOf(part) == Times12(FontSizeOf(part))

\* The lines a present block takes: the wrapped lines of a title or a
\* description at its font size, one line for the date and the author.
LineCount(cont, part) ==
    IF part \in {"title", "description"}
    THEN Len(wrapText(Field(cont, part)[1],
                      [DefaultCtx EXCEPT !.font = Font(FALSE, FontSizeOf(part), "")],
                      Px(settings.metadataWidth - 2 * settings.padding)))
    ELSE 1

BlockHeight(cont, part) ==
    LineCount(cont, part) * LineHeightOf(part) + Px(settings.spaceBetween)

BelowLogo == Px(2 * settings.frameWidth + settings.padding + imageHeight + settings.padding)

\* Where block k starts: below the logo, plus the heights of the blocks
\* present before it.
ExpectedStart(cont, k) ==
    BelowLogo
    + SumSeq([j \in 1..(k - 1) |->
                IF Truthy(Field(cont, Blocks[j])) THEN BlockHeight(cont, Blocks[j])
                ELSE 0])

IsTextOf(part, e) == e.part = part /\ e.op = "fillText"

TextsOf(t, part) == SelectSeq(t, LAMBDA e : IsTextOf(part, e))

\* C8: once addMetadata has drawn, each block whose field is present has
\* its lines drawn from the position below the logo plus the heights of the
\* present blocks before it, one line height apart; a block whose field is
\* absent or the empty string has drawn nothing and has moved no later
\* block.
C8_BlocksStackWithoutGaps ==
    MetadataDrawn =>
        \A k \in 1..Len(Blocks) :
            LET texts == TextsOf(T, Blocks[k])
            IN  IF Truthy(Field(content[1], Blocks[k]))
                THEN /\ Len(texts) = LineCount(content[1], Blocks[k])
                     /\ \A i \in 1..Len(texts) :
                           texts[i].args[2] =
                               ExpectedStart(content[1], k)
                               + (i - 1) * LineHeightOf(Blocks[k])
                ELSE texts = <<>>

C8_Witness ==
    /\ MetadataDrawn
    /\ content[1].title = Some(<<>>)
    /\ content[1].description = None
    /\ Truthy(content[1].created_at)
    /\ Truthy(content[1].username)
    /\ TextsOf(T, "date")[1].args[2] = Px(51)
    /\ TextsOf(T, "author")[1].args[2] = Px(51) + 288 + Px(15)

FirstIndex(t, part) == CHOOSE i \in 1..Len(t) : IsTextOf(part, t[i]) /\
                           \A j \in 1..(i - 1) : ~IsTextOf(part, t[j])

LastIndex(t, part) == CHOOSE i \in 1..Len(t) : IsTextOf(part, t[i]) /\
                          \A j \in (i + 1)..Len(t) : ~IsTextOf(part, t[j])

\* C9: when title, description, created_at and username are all present,
\* addMetadata has drawn all four blocks, every line of a block before the
\* first line of the next block in the order title, description, date,
\* author, and each block starts strictly lower than the block before it.
C9_FixedOrderIncreasingY ==
    (MetadataDrawn /\ \A k \in 1..Len(Blocks) : Truthy(Field(content[1], Blocks[k])))
    => /\ \A k \in 1..Len(Blocks) : TextsOf(T, Blocks[k]) # <<>>
       /\ \A k \in 1..(Len(Blocks) - 1) :
             /\ LastIndex(T, Blocks[k]) < FirstIndex(T, Blocks[k + 1])
             /\ T[FirstIndex(T, Blocks[k])].args[2]
                  < T[FirstIndex(T, Blocks[k + 1])].args[2]

C9_Witness ==
    /\ MetadataDrawn
    /\ content[1].title = Some(TwoLineTitle)
    /\ Truthy(content[1].description)
    /\ Truthy(content[1].created_at)
    /\ Truthy(content[1].username)
    /\ Len(TextsOf(T, "title")) = 2
    /\ T[FirstIndex(T, "author")].args[2] > T[FirstIndex(T, "date")].args[2]

InvalidDate == Truthy(content[1].created_at) /\ content[1].created_at[1] # IsoDate

\* C10: once addMetadata has drawn a content whose created_at is present,
\* the date block is one line: "Added: " followed by the created_at string
\* itself when it does not parse as a date, and by the locale-formatted date
\* when it does.  With the unparsed string the render went on: the author
\* is drawn after the date, the code generation was started, and the render
\* fails only if the code stage does.
C10_DateFallsBackToRawString ==
    (MetadataDrawn /\ Truthy(content[1].created_at)) =>
        LET texts == TextsOf(T, "date")
        IN  /\ Len(texts) = 1
            /\ texts[1].text =
                  IF InvalidDate THEN <<"Added:", SPACE>> \o content[1].created_at[1]
                  ELSE <<"Added:", SPACE, "1/15/2024">>
            /\ InvalidDate =>
                  /\ Truthy(content[1].username) =>
                        /\ TextsOf(T, "author") # <<>>
                        /\ FirstIndex(T, "date") < FirstIndex(T, "author")
                  /\ \E i \in 1..Len(T) : T[i].ev = "loadStart" /\ T[i].part = "qrcode"
                  /\ pc[1] \in {"qrGenerating", "qrLoading", "metadataDone", "done",
                               "failed"}
                  /\ pc[1] = "failed" => FailedStage(T) = "code"

C10_Witness ==
    /\ MetadataDrawn
    /\ pc[1] = "done"
    /\ content[1].created_at = Some(NotADate)
    /\ Truthy(content[1].username)
    /\ TextsOf(T, "date")[1].text = <<"Added:", SPACE, "not-a-date">>
    /\ HasEvent(T, IsCodeDrawn)
    /\ result[1].kind = "image"

(***************************************************************************)
(* Claims about wrapText.                                                  *)
(***************************************************************************)
NonEmpty(s) == s # <<>>

\* The words of a string: its space-delimited pieces that are not "".
Words(s) == SelectSeq(split(s), NonEmpty)

IsSingleWord(line) == line # <<>> /\ \A i \in 1..Len(line) : line[i] # SPACE

Returned == ret # None

Lines == ret[1]

\* C4: for a non-empty text and maxWidth > 0, every returned line measures
\* at most maxWidth, or is one word (no U+0020 in it) that alone measures
\* more than maxWidth.
C4_LinesFitOrSingleWord ==
    (Returned /\ call.fn = "wrapText" /\ call.text # <<>> /\ call.maxWidth > 0)
        => \A i \in 1..Len(Lines) :
              \/ measureText(WrapCtx, Lines[i]) <= Px(call.maxWidth)
              \/ /\ IsSingleWord(Lines[i])
                 /\ measureText(WrapCtx, Lines[i]) > Px(call.maxWidth)

\* C4 witness: a wrap with maxWidth > 0 that returned both a line of two
\* words within maxWidth and a single word wider than maxWidth.
C4_Witness ==
    /\ Returned /\ call.fn = "wrapText" /\ call.maxWidth > 0
    /\ \E i \in 1..Len(Lines) :
          /\ Len(Words(Lines[i])) >= 2
          /\ measureText(WrapCtx, Lines[i]) <= Px(call.maxWidth)
    /\ \E i \in 1..Len(Lines) :
          /\ IsSingleWord(Lines[i])
          /\ measureText(WrapCtx, Lines[i]) > Px(call.maxWidth)

\* C5: the words of the returned lines, concatenated in line order, are
\* exactly the words of the input, for every text and every maxWidth.
C5_WordsPreserved ==
    (Returned /\ call.fn = "wrapText")
        => Flatten([i \in 1..Len(Lines) |-> Words(Lines[i])]) = Words(call.text)

\* C5 witness: a text of three words with a doubled space between two of
\* them was wrapped onto at least two lines.
C5_Witness ==
    /\ Returned /\ call.fn = "wrapText"
    /\ Len(Words(call.text)) >= 3
    /\ Len(split(call.text)) > Len(Words(call.text))
    /\ Len(Lines) >= 2

(***************************************************************************)
(* Claims about the image fit.                                             *)
(***************************************************************************)
drawnW == Dy(ret[1].scaledWidth)

drawnH == Dy(ret[1].scaledHeight)

Fitted == ret # None /\ call.fn = "fit"

\* x <= y * (1 + 2^-51)
UpTo(x, y) == DyLeq(x, DyAdd(y, DyScale(y, -51)))

\* x and y agree to a relative error of 2^-51
Near(x, y) == UpTo(x, y) /\ UpTo(y, x)

\* C7 as stated: the drawn size keeps the aspect ratio exactly
\* (drawnW * H = drawnH * W), lies within A x B, and equals A or B on one
\* axis.
C7_ExactFit ==
    Fitted =>
        /\ DyEq(DyMulInt(call.height, drawnW), DyMulInt(call.width, drawnH))
        /\ DyLeq(drawnW, DyInt(innerWidth))
        /\ DyLeq(drawnH, DyInt(innerHeight))
        /\ DyEq(drawnW, DyInt(innerWidth)) \/ DyEq(drawnH, DyInt(innerHeight))

\* C7 amended: the same three relations hold up to the rounding of the
\* double arithmetic, a relative error of at most 2^-51.
C7_FitWithinRounding ==
    Fitted =>
        /\ Near(DyMulInt(call.height, drawnW), DyMulInt(call.width, drawnH))
        /\ UpTo(drawnW, DyInt(innerWidth))
        /\ UpTo(drawnH, DyInt(innerHeight))
        /\ Near(drawnW, DyInt(innerWidth)) \/ Near(drawnH, DyInt(innerHeight))

\* C7 witness: a bitmap was fitted whose drawn height came out above the
\* inner height by rounding, and whose width is well inside.
C7_Witness ==
    /\ Fitted
    /\ DyLess(DyInt(innerHeight), drawnH)
    /\ DyLess(drawnW, DyInt(innerWidth))

(***************************************************************************)
(* Claims about the code bitmap.                                           *)
(***************************************************************************)
IndexOf(t, P(_)) == CHOOSE i \in 1..Len(t) : P(t[i]) /\ \A j \in 1..(i - 1) : ~P(t[j])

IsCodeRequest(e) == e.ev = "loadStart" /\ e.op = "qrcode"

IsCodeGenerated(e) == e.ev = "loadEnd" /\ e.op = "qrcode" /\ e.ok

IsCodeBitmapLoaded(e) == e.ev = "loadEnd" /\ e.op = "qrimage" /\ e.ok

\* C11: a render that returned an image payload has asked for the code of
\* its own payload, got it, loaded its bitmap and drawn the bitmap, in that
\* order and before the surface was serialized, and the drawn code is part
\* of what was serialized.
C11_ImageAlwaysCarriesCode ==
    (Rendering /\ result[1].kind = "image") =>
        /\ HasEvent(T, IsCodeRequest)
        /\ HasEvent(T, IsCodeGenerated)
        /\ HasEvent(T, IsCodeBitmapLoaded)
        /\ HasEvent(T, IsCodeDrawn)
        /\ HasEvent(T, IsSerialize)
        /\ T[IndexOf(T, IsCodeRequest)].text = qrData[1]
        /\ IndexOf(T, IsCodeRequest) < IndexOf(T, IsCodeGenerated)
        /\ IndexOf(T, IsCodeGenerated) < IndexOf(T, IsCodeBitmapLoaded)
        /\ IndexOf(T, IsCodeBitmapLoaded) < IndexOf(T, IsCodeDrawn)
        /\ IndexOf(T, IsCodeDrawn) < IndexOf(T, IsSerialize)
        /\ HasEvent(result[1].data[4], IsCodeDrawn)

C11_Witness ==
    /\ Rendering
    /\ result[1].kind = "image"
    /\ content[1].type = "text"
    /\ content[1].title = None
    /\ content[1].description = None
    /\ content[1].created_at = None
    /\ content[1].username = None
    /\ HasEvent(result[1].data[4], IsCodeDrawn)

IsMetadataText(e) ==
    e.op = "fillText" /\ e.part \in {"title", "description", "date", "author"}

\* C12: in a render that returned an image the last two paints are the
\* backing rectangle, filled white over the square of the code bitmap
\* extended by 5 pixels on each side, and then the code bitmap at
\* (612, 334) with size 150 x 150; every metadata text was painted before
\* the rectangle, so the two paints are the same for every content.
C12_BackingThenCodeLast ==
    (Rendering /\ pc[1] = "done") =>
        LET paints == Paints(T)
            n == Len(paints)
        IN  /\ n >= 2
            /\ paints[n - 1].op = "fillRect"
            /\ paints[n - 1].style.fillStyle = "white"
            /\ paints[n - 1].args = <<Px(607), Px(329), Px(160), Px(160)>>
            /\ paints[n].op = "drawImage"
            /\ paints[n].part = "qrimage"
            /\ paints[n].args = <<Px(612), Px(334), Px(150), Px(150)>>
            /\ \A k \in 1..4 :
                  paints[n].args[k] - paints[n - 1].args[k]
                      = IF k <= 2 THEN Px(5) ELSE 0 - Px(10)
            /\ \A i \in 1..(n - 2) : ~IsCodeDrawn(paints[i])
            /\ \A i \in 1..n : IsMetadataText(paints[i]) => i < n - 1

C12_Witness ==
    /\ Rendering
    /\ pc[1] = "done"
    /\ \A part \in {"title", "description", "date", "author"} :
          TextsOf(T, part) # <<>>
    /\ Paints(T)[Len(Paints(T))].part = "qrimage"
    /\ Paints(T)[Len(Paints(T)) - 1].op = "fillRect"

(***************************************************************************)
(* Claims about the dispatch on the content.                               *)
(***************************************************************************)
Called == Rendering /\ pc[1] # "idle" /\ ~(\E i \in 1..Len(T) : T[i].part = "canvas")

NeitherVariant(cont) == cont.type \notin {"text", "image"}

MissingField(cont) ==
    \/ cont.type = "text" /\ cont.text = None
    \/ cont.type = "image" /\ cont.imageUrl = None

EmptyText(cont) == cont.type = "text" /\ cont.text = Some(<<>>)

\* The call has failed as unsupported content: only the base layout was
\* painted, no load was started, and the error wraps "Invalid content
\* provided".
RejectedAsUnsupported ==
    /\ pc[1] = "failed"
    /\ result[1].kind = "error"
    /\ result[1].message = <<"Failed to generate content: ", "Invalid content provided">>
    /\ \A i \in 1..Len(T) :
          \/ T[i].ev = "paint" /\ T[i].part = "base"
          \/ T[i].ev = "throw" /\ i = Len(T)

\* C13 as stated: a descriptor that is of neither variant, or lacks its
\* required field, or is a text variant with the empty string as text, is
\* rejected as unsupported without content, metadata or code being
\* rendered.
C13_UnsupportedOrEmptyRejected ==
    (Called /\ (\/ NeitherVariant(content[1])
                \/ MissingField(content[1])
                \/ EmptyText(content[1])))
    => RejectedAsUnsupported

\* C13 amended: a descriptor that is of neither variant or lacks its text or
\* imageUrl field is rejected as unsupported with only the base layout
\* painted, and no other descriptor is; a text variant whose text is the
\* empty string is rendered: its container is painted with no line in it
\* and the render goes on to the metadata.
C13_MissingVariantRejected ==
    Called =>
        /\ (NeitherVariant(content[1]) \/ MissingField(content[1]))
              <=> RejectedAsUnsupported
        /\ EmptyText(content[1]) =>
              /\ Len(SelectSeq(T, LAMBDA e : e.part = "text" /\ e.op = "fillRect")) = 2
              /\ TextsOf(T, "text") = <<>>
              /\ pc[1] = "failed" => FailedStage(T) \in {"metadata", "code"}

C13_Witness ==
    /\ Called
    /\ RejectedAsUnsupported
    /\ content[1].type = "text"
    /\ content[1].text = None
    /\ Truthy(content[1].title)


IsSubjectLoadStart(e) == e.ev = "loadStart" /\ e.op = "image"

IsSubjectLoadFailed(e) == e.ev = "loadEnd" /\ e.op = "image" /\ ~e.ok

SubjectLoads(t) == SelectSeq(t, IsSubjectLoadStart)

\* C14: a render of an image variant has started exactly one load of the
\* subject bitmap, from displayUrl when that is present and not empty and
\* from imageUrl otherwise; when the load failed the render failed at once,
\* with that one load and no load from the other URL.
C14_OneLoadDisplayUrlFirst ==
    (Called /\ content[1].type = "image" /\ content[1].imageUrl # None) =>
        /\ Len(SubjectLoads(T)) = 1
        /\ SubjectLoads(T)[1].text =
              IF content[1].displayUrl # None /\ content[1].displayUrl[1] # <<>>
              THEN content[1].displayUrl[1]
              ELSE content[1].imageUrl[1]
        /\ HasEvent(T, IsSubjectLoadFailed) =>
              /\ pc[1] = "failed"
              /\ IsSubjectLoadFailed(T[Len(T) - 1])
              /\ T[Len(T)].ev = "throw"
              /\ Cause(T) = <<"Failed to load image">>

C14_Witness ==
    /\ Called
    /\ content[1].type = "image"
    /\ content[1].displayUrl = Some(DisplayUrl)
    /\ content[1].imageUrl = Some(ImageUrl)
    /\ HasEvent(T, IsSubjectLoadFailed)
    /\ Len(SubjectLoads(T)) = 1
    /\ SubjectLoads(T)[1].text = DisplayUrl
    /\ pc[1] = "failed"


(***************************************************************************)
(* Claims about the geometry of the layout.                                *)
(***************************************************************************)
BasePaints(t) == SelectSeq(t, LAMBDA e : e.part = "base" /\ e.ev = "paint")

\* The right edge of a painted rectangle, in 1/20 pixel.
RightEdge(e) == e.args[1] + e.args[3]

\* C15: once the base layout is painted, the content width, the metadata
\* width and the widths of the border, the frame (left and right) and the
\* divider add up to the canvas width, and the metadata panel, which starts
\* at contentWidth + 3 * frameWidth and is metadataWidth wide, ends inside
\* the background rectangle that drawBaseLayout painted.
C15_PanelsSumToCanvas ==
    (Called /\ Len(BasePaints(T)) = 4) =>
        LET border == BasePaints(T)[1]
            background == BasePaints(T)[3]
            divider == BasePaints(T)[4]
            left == background.args[1]
            right == RightEdge(border) - RightEdge(background)
        IN  /\ Px(settings.contentWidth) + Px(settings.metadataWidth)
                 + left + divider.args[3] + right
               = Px(settings.canvasWidth)
            /\ RightEdge(divider) = Px(metadataX)
            /\ Px(metadataX + settings.metadataWidth) <= RightEdge(background)

(***************************************************************************)
(* Claims about the text variant.                                          *)
(***************************************************************************)
TextRendered ==
    /\ Called
    /\ content[1].type = "text"
    /\ content[1].text # None
    /\ IsString(content[1].text[1])

\* The lines of the text, wrapped at 16px to the 540 pixels of the
\* container's inside.
WrappedBody ==
    wrapText(content[1].text[1], [DefaultCtx EXCEPT !.font = Font(FALSE, 16, "")],
             Px(540))

\* The top of line i (from 0): 32 pixels plus i line heights of 22.4 pixels.
LineTop(i) == Px(32) + i * 448

\* The inner bottom of the container: 18 + 464 - 4 pixels.
BottomBound == Px(478)

IsDrawnAt(i) ==
    \E k \in 1..Len(TextsOf(T, "text")) :
        /\ TextsOf(T, "text")[k].args = <<Px(32), LineTop(i)>>
        /\ TextsOf(T, "text")[k].text = WrappedBody[i + 1]
        /\ TextsOf(T, "text")[k].style.textBaseline = "top"

DrawnOnlyWhere(Keep(_)) ==
    /\ \A i \in 0..(Len(WrappedBody) - 1) : IsDrawnAt(i) <=> Keep(i)
    /\ Len(TextsOf(T, "text")) = Cardinality({i \in 0..(Len(WrappedBody) - 1) : Keep(i)})
    /\ ~(\E i \in 1..Len(T) : T[i].ev = "throw" /\ T[i].part = "text")

TopAboveBound(i) == LineTop(i) < BottomBound

WholeLineAboveBound(i) == LineTop(i) + 448 < BottomBound

\* C16 as stated: renderTextContent has drawn wrapped line i at
\* textY + i * lineHeight exactly when the top of the line is above the
\* bottom bound of the container, and has thrown nothing.
C16_OmitsLinesWithTopBelowBound == TextRendered => DrawnOnlyWhere(TopAboveBound)

\* C16 amended: renderTextContent has drawn wrapped line i at
\* textY + i * lineHeight exactly when the whole line, its top plus one line
\* height, is strictly above the bottom bound of the container; a line that
\* starts above the bound and does not end above it is omitted too, and
\* omitting is silent.
C16_OmitsLinesNotWhollyAboveBound == TextRendered => DrawnOnlyWhere(WholeLineAboveBound)

C16_Witness ==
    /\ TextRendered
    /\ Len(WrappedBody) = 21
    /\ Len(TextsOf(T, "text")) = 19
    /\ IsDrawnAt(18)
    /\ ~IsDrawnAt(19)
    /\ TopAboveBound(19)
    /\ ~TopAboveBound(20)
    /\ pc[1] = "done"

IsLoadStart(e) == e.ev = "loadStart"

\* C17: a render of a text descriptor has started no load of a subject
\* bitmap: its loads are the logo, the code and the code's bitmap; once the
\* code's bitmap has loaded the render does not fail, and what it returns
\* is the JPEG serialization of a surface of 800 x 500 pixels, the canvas
\* width and height.
C17_TextLoadsNoSubjectBitmap ==
    (Called /\ content[1].type = "text") =>
        /\ ~HasEvent(T, IsSubjectLoadStart)
        /\ \A i \in 1..Len(T) :
              IsLoadStart(T[i]) => T[i].op \in {"logo", "qrcode", "qrimage"}
        /\ HasEvent(T, IsCodeBitmapLoaded) => pc[1] \in {"metadataDone", "done"}
        /\ pc[1] = "done" =>
              /\ result[1].kind = "image"
              /\ result[1].data[1] = "image/jpeg"
              /\ result[1].data[2] = 800 /\ result[1].data[2] = settings.canvasWidth
              /\ result[1].data[3] = 500 /\ result[1].data[3] = settings.canvasHeight

C17_Witness ==
    /\ Called
    /\ content[1].type = "text"
    /\ content[1].text = Some(ShortText)
    /\ pc[1] = "done"
    /\ result[1].kind = "image"
    /\ result[1].data[2] = 800
    /\ Len(SelectSeq(T, IsLoadStart)) = 3

(***************************************************************************)
(* Claims about calls in flight at once.                                   *)
(***************************************************************************)
IsSubjectLoaded(e) == e.ev = "loadEnd" /\ e.op = "image" /\ e.ok

IsLogoDecoded(e) == e.ev = "loadEnd" /\ e.op = "logo" /\ e.ok

Nothing(c) == [c |-> c, ops |-> <<>>]

\* What a call paints when it runs alone, up to the point its own loads
\* have got to: the base layout, then the content, then the logo and the
\* metadata, then the code, each stage through the context as the stage
\* before left it.
AloneCode(t, base, body, meta) ==
    base.ops \o body.ops \o meta.ops
    \o (IF HasEvent(t, IsCodeBitmapLoaded) THEN drawCode(meta.c).ops ELSE <<>>)

AloneMetadata(cont, t, base, body) ==
    AloneCode(t, base, body,
              IF HasEvent(t, IsLogoDecoded) THEN drawMetadata(cont, body.c)
              ELSE Nothing(body.c))

AloneContent(cont, t, base) ==
    AloneMetadata(cont, t, base,
        IF cont.type = "text" THEN renderTextContent(cont, base.c)
        ELSE IF HasEvent(t, IsSubjectLoaded)
        THEN imageOnload(base.c, t[IndexOf(t, IsSubjectLoaded)].args[1],
                         t[IndexOf(t, IsSubjectLoaded)].args[2])
        ELSE Nothing(base.c))

AlonePaints(cont, t) == AloneContent(cont, t, drawBaseLayout(DefaultCtx))

\* C18: with several calls in flight and their steps interleaved, every
\* call has loaded from its own URL and for its own payload, the paints on
\* its canvas are those it makes when run alone with the same load
\* outcomes, no more and no fewer, and a call that has ended has returned
\* the serialization of exactly those paints or the error of its own
\* failed load.
C18_CallsDoNotInterfere ==
    \A r \in DOMAIN pc :
        pc[r] # "idle" =>
            /\ Paints(trace[r]) = AlonePaints(content[r], trace[r])
            /\ \A i \in 1..Len(trace[r]) :
                  /\ IsSubjectLoadStart(trace[r][i])
                        => trace[r][i].text = content[r].displayUrl[1]
                  /\ IsCodeRequest(trace[r][i]) => trace[r][i].text = qrData[r]
            /\ pc[r] = "done" =>
                  result[r] = [kind |-> "image", message |-> <<>>,
                               data |-> <<"image/jpeg", 800, 500,
                                          AlonePaints(content[r], trace[r])>>]
            /\ pc[r] = "failed" =>
                  /\ result[r].kind = "error"
                  /\ Tail(result[r].message) =
                        IF Cause(trace[r]) = <<>> THEN <<"Unknown error">>
                        ELSE Cause(trace[r])
            /\ pc[r] \notin {"done", "failed"} => result[r] = NoResult

C18_Witness ==
    /\ DOMAIN pc = 1..MaxRenders
    /\ MaxRenders >= 2
    /\ pc[1] = "done"
    /\ pc[2] = "qrGenerating"
    /\ content[1].type = "text"
    /\ content[2].type = "image"
    /\ HasEvent(trace[2], IsSubjectLoaded)
    /\ qrData[1] # qrData[2]

(***************************************************************************)
(* More claims about wrapText.                                             *)
(***************************************************************************)
Wrapped == Returned /\ call.fn = "wrapText"

\* The word a line was started with: its first space-delimited piece.
FirstWord(line) == split(line)[1]

\* C19: in what wrapText returned, a line that had a word appended measures
\* strictly less than maxWidth, and for every two consecutive lines the
\* earlier line, a space and the first word of the later line together
\* measure at least maxWidth: each word went onto the current line exactly
\* when it fitted strictly.
C19_Greedy ==
    Wrapped =>
        /\ \A i \in 1..Len(Lines) :
              Len(split(Lines[i])) >= 2
                  => measureText(WrapCtx, Lines[i]) < Px(call.maxWidth)
        /\ \A i \in 1..(Len(Lines) - 1) :
              measureText(WrapCtx, Lines[i] \o <<SPACE>> \o FirstWord(Lines[i + 1]))
                  >= Px(call.maxWidth)

C19_Witness ==
    /\ Wrapped
    /\ Len(Lines) >= 2
    /\ Len(Words(Lines[1])) = 2
    /\ measureText(WrapCtx, Lines[1] \o <<SPACE>> \o FirstWord(Lines[2]))
          = Px(call.maxWidth)

\* C20: wrapText returns no line for the empty string, whatever maxWidth
\* is, and for maxWidth <= 0 it returns the words of the input, one line per
\* word.
C20_EmptyAndOneWordPerLine ==
    Wrapped =>
        /\ call.text = <<>> => Lines = <<>>
        /\ call.maxWidth <= 0 => Lines = Words(call.text)

(***************************************************************************)
(* The position of the code bitmap in the metadata panel.                  *)
(***************************************************************************)
CodePaint == Paints(T)[Len(Paints(T))]

PaddedLeft == Px(metadataX + settings.padding)

PaddedRight == Px(metadataX + settings.metadataWidth - settings.padding)

\* C21: in a render that returned an image the code bitmap is horizontally
\* centered within the padded width of the metadata panel (the gap from
\* metadataX + padding to its left edge equals the gap from its right edge
\* to metadataX + metadataWidth - padding), and its bottom edge is padding
\* pixels above the canvas bottom.
C21_CodeCentered ==
    (Rendering /\ pc[1] = "done") =>
        /\ IsCodeDrawn(CodePaint)
        /\ CodePaint.args[1] - PaddedLeft
              = PaddedRight - (CodePaint.args[1] + CodePaint.args[3])
        /\ CodePaint.args[2] + CodePaint.args[4]
              = Px(settings.canvasHeight - settings.padding)

(***************************************************************************)
(* What a failed load of the subject image leaves on the surface.          *)
(***************************************************************************)
BaseLayout == drawBaseLayout(DefaultCtx)

\* C22: when the subject image has failed to load, renderImageContent has
\* painted nothing: the paints on the surface are exactly the four paints
\* of the base layout, none of them of the image stage, and the context is
\* as drawBaseLayout left it.
C22_FailedLoadPaintsNothing ==
    (Rendering /\ HasEvent(T, IsSubjectLoadFailed)) =>
        /\ Paints(T) = BaseLayout.ops
        /\ \A i \in 1..Len(T) : T[i].part = "image" => ~IsPaint(T[i])
        /\ ctx[1] = BaseLayout.c

C22_Witness ==
    /\ Rendering
    /\ pc[1] = "failed"
    /\ content[1].type = "image"
    /\ HasEvent(T, IsSubjectLoadFailed)
    /\ Len(Paints(T)) = 4
    /\ result[1].message = <<"Failed to generate content: ", "Failed to load image">>

(***************************************************************************)
(* Empty lines in what wrapText returns.                                   *)
(***************************************************************************)
\* C23: no line returned by wrapText is the empty string, for every input,
\* leading, trailing and consecutive spaces included: each line holds at
\* least one word.
C23_NoEmptyLine ==
    Wrapped =>
        \A i \in 1..Len(Lines) :
            /\ Lines[i] # <<>>
            /\ Words(Lines[i]) # <<>>

(***************************************************************************)
(* Termination of a render.                                                *)
(***************************************************************************)
Ended(r) == result[r].kind \in {"image", "error"}

\* C24: when every load a render started (subject image, logo decode, code
\* generation, code bitmap) completes with success or failure, a call of
\* generateContentWithQR that has started eventually returns an image
\* payload or throws; a render stays suspended only while a load of its own
\* is pending.
C24_RenderEndsWhenLoadsComplete ==
    (pc[1] # "idle") ~> (pc[1] \in {"done", "failed"} /\ Ended(1))

C24_Witness ==
    /\ Rendering
    /\ pc[1] = "done"
    /\ Ended(1)
    /\ content[1].type = "image"
    /\ \A asset \in {"image", "logo", "qrcode", "qrimage"} :
          \E i \in 1..Len(T) : IsLoadEnd(T[i]) /\ T[i].op = asset /\ T[i].ok

(***************************************************************************)
(* Claims about the page: overlapping and single runs of                   *)
(* generateArenaqrImage.                                                   *)
(***************************************************************************)
Paging == DOMAIN run # {}

Started(r) == run[r].at # "idle"

\* r is the most recently started run.
Latest(r) ==
    /\ Started(r)
    /\ \A o \in DOMAIN run : o > r => ~Started(o)

\* r was in flight together with another run at some moment.
Overlapped(r) ==
    \/ run[r].during # {}
    \/ \E o \in DOMAIN run : Started(o) /\ r \in run[o].during

Succeeded(r) == result[r].kind = "image"

\* C25: when a run was started while an earlier run was still in flight and
\* all runs have finished, the result image and the download action hold
\* the output of the most recently started run (if it produced one),
\* whatever order the runs finished in.
C25_LatestRunShown ==
    Paging =>
        \A r \in DOMAIN run :
            (Latest(r) /\ run[r].during # {} /\ NoneInFlight /\ Succeeded(r)) =>
                /\ dom.src = Some(result[r].data)
                /\ dom.download = Some(result[r].data)

\* C26: the loading indicator is visible in every state in which a run is
\* in flight, also after an overlapping run has finished, and it is hidden
\* when no run is in flight.
C26_LoadingWhileInFlight ==
    Paging =>
        /\ (\E r \in DOMAIN run : InFlight(r)) => dom.loading = "block"
        /\ NoneInFlight => dom.loading = "none"

\* The message the banner carries for a failed run: the lookup failed when
\* the render never started, else the render threw.
IsFailureMessage(r, message) ==
    /\ message # <<>>
    /\ IF pc[r] = "idle"
       THEN /\ Head(message) \in {"Failed to fetch Are.na block: ",
                                  "Failed to process Are.na block: "}
            /\ Len(message) >= 2
       ELSE message = <<"Failed to process Are.na block: ">> \o result[r].message

\* C27: after a run that overlapped no other run has finished, and until
\* the next run starts, the loading indicator is hidden and exactly one of
\* the result panel and the error banner is visible: the result panel, with
\* the run's image and no banner, when the lookup and the render succeeded,
\* otherwise the banner with the failure message, and no result panel.
C27_OneOfResultAndError ==
    Paging =>
        \A r \in DOMAIN run :
            (Latest(r) /\ Finished(r) /\ ~Overlapped(r)) =>
                /\ dom.loading = "none"
                /\ (dom.result = "flex") # (dom.error = "block")
                /\ dom.result \in {"flex", "none"}
                /\ dom.error \in {"block", "none"}
                /\ IF Succeeded(r)
                   THEN /\ dom.result = "flex"
                        /\ dom.src = Some(result[r].data)
                        /\ dom.download = Some(result[r].data)
                   ELSE /\ dom.error = "block"
                        /\ IsFailureMessage(r, dom.errorText)

\* A failed run after a successful one: the image of the first run is still
\* set, its panel is hidden and the banner is shown.
C27_Witness ==
    /\ Paging
    /\ \E r \in DOMAIN run :
          /\ r > 1
          /\ Latest(r)
          /\ Finished(r)
          /\ ~Overlapped(r)
          /\ ~Succeeded(r)
          /\ pc[r] = "failed"
          /\ Succeeded(r - 1)
          /\ dom.src = Some(result[r - 1].data)
          /\ dom.error = "block"
          /\ dom.result = "none"

====
